---- MODULE Spec2Model ----
(***************************************************************************)
(* Model of the LLM security proxy (security/llm-proxy): cost table,       *)
(* budget manager, quota tracker, router configuration, SSE usage          *)
(* extractor, hidden-Unicode guard and the proxy request pipeline.         *)
(*                                                                         *)
(* Conventions.                                                            *)
(*   - Time is in seconds (datetime.now(timezone.utc) is the variable      *)
(*     now); a timedelta is a number of seconds.                           *)
(*   - Money is exact: prices are in 1/1000 USD per million tokens and a   *)
(*     cost is in 1e-9 USD, so that get_cost is tokens * price with no     *)
(*     rounding.  Floating-point rounding is not modelled.                 *)
(*   - A Python str is a sequence of one-character strings, so that        *)
(*     startswith is a real prefix test.                                   *)
(*   - None is the record None; an optional value is None or a record.     *)
(*   - A message text is a sequence of code points; a JSON value is a      *)
(*     tagged record (JObj, JStr, JNum, JArr, JBool).                      *)
(*   - An SSE byte stream is a sequence of symbols; NL is the newline.     *)
(***************************************************************************)
EXTENDS Integers, Sequences, FiniteSets, TLC

VARIABLES
    \* ---- the clock
    now,                 \* datetime.now(timezone.utc), in seconds
    ticks,               \* number of clock advances so far (bounded)
    \* ---- budget.BudgetManager
    budget_config,       \* BudgetManager._config (a BudgetConfig)
    entries,             \* BudgetManager._entries (deque of CostEntry)
    recorded,            \* number of record_cost calls made so far (bounded)
    returned,            \* value returned by the call that just completed
    \* ---- budget.QuotaTracker
    latest,              \* QuotaTracker._latest (a QuotaSnapshot or None)
    push_within_minutes, \* QuotaTracker._push_within_minutes
    \* ---- router_config.py
    router_config,       \* the RouterConfig in use (proxy._router_config)
    dg_orig,             \* downgrade_tier: the tier first passed in
    dg_steps,            \* downgrade_tier: the steps of the calls made, in order
    dg_tier,             \* downgrade_tier: the result of the last call
    \* ---- proxy.SSETokenExtractor
    extractor,           \* the extractor object
    sse_stream,          \* the whole upstream byte stream
    sse_pos,             \* how much of it has been fed
    sse_phase,           \* "feeding", "finalized" or "raised"
    sse_cut,             \* some chunk has ended in the middle of a line
    \* ---- proxy.strip_hidden_unicode
    uni_orig,            \* the text first passed in
    uni_text,            \* the result of the last call
    uni_strips,          \* number of calls made so far (bounded)
    \* ---- proxy.py: the running proxy
    environ,             \* the configuration from the environment
    phase,               \* "boot" until the lifespan startup has run
    budget_manager,      \* _budget_manager (None or Created)
    quota_tracker,       \* _quota_tracker (None or Created)
    smart_router_ready,  \* _smart_router_ready
    classifier_globals,  \* the globals of classifier.py
    inflight,            \* upstream exchanges that have not ended
    handled,             \* number of requests handled so far (bounded)
    delivered,           \* the last response that went back to a client
    last,                \* history: the last request handled and what the
                         \* handler did with it
    seen_quota,          \* history: the snapshot that the rate-limit headers
                         \* of the upstream responses so far give
    \* ---- litellm_bridge.forward_streaming
    bridge_format,       \* client_format
    bridge_stream,       \* the chunks the upstream stream delivers
    bridge_raises,       \* where the upstream call fails
    bridge_pos,          \* chunks read so far
    bridge_tokens,       \* total_output_tokens
    bridge_out,          \* the frames yielded so far
    bridge_pc,           \* the statement the generator is at
    \* ---- proxy.py: one request, statement by statement
    rq_request,          \* the request
    rq_reply,            \* what the external guard answers when asked
    rq_pc,               \* where the request is
    rq_guarded,          \* what the guard stage has produced
    rq_fwd,              \* the call of _forward_via_httpx
    rq_response,         \* what the upstream has answered
    rq_client,           \* the httpx.AsyncClient: "none", "open" or "closed"
    rq_upstream,         \* upstream_response: "none", "open" or "closed"
    rq_extractor,        \* the SSETokenExtractor of stream_with_usage
    rq_rest,             \* the upstream bytes not yet read
    rq_result,           \* what the handler has returned
    rq_stages,           \* history: the stages passed, in order
    \* ---- budget.QuotaTracker, history
    quota_call,          \* the last update call: its headers, the snapshot
                         \* before it and its time
    \* ---- router_config._parse_budgets
    parse_raw,           \* the budgets section of the document, None when
                         \* the document has none
    parse_result,        \* the BudgetConfig made of it, None before
    \* ---- classifier.classify_request
    classify_globals,    \* the globals of classifier.py at the call
    classify_body,       \* the body
    classify_default,    \* the caller's default tier
    classify_ml,         \* what the RouteLLM router does
    classify_outcome,    \* the tier returned or the exception, None before
    \* ---- proxy.py: the guard stage of one request
    gs_env,              \* the configuration from the environment
    gs_request,          \* the request
    gs_out,              \* what the stage leaves (blocked, body, body_dict),
                         \* the reason of a hidden-Unicode block, what was
                         \* posted to the guard service and what it did
    gs_result,           \* what the handler does next: a response of its
                         \* own, or a call of the forwarder
    \* ---- proxy.py: the headers of one upstream request
    hd_headers,          \* the client's request headers
    hd_target,           \* the forward path, with the environment (legacy)
                         \* or the provider (same-format routing)
    hd_out,              \* the headers built, None before
    \* ---- litellm_bridge.py: one request translation
    tr_body,             \* the Anthropic request body
    tr_messages,         \* [list |-> the OpenAI messages made of it], None
                         \* before
    \* ---- budget.py: tasks of one event loop that use a BudgetManager
    lk_running,          \* the task that runs, "loop" between tasks
    lk_pc,               \* for each task, the statement it executes next
    lk_holder,           \* the task that holds _lock, "" when it is free
    lk_entries,          \* _entries
    lk_stamp,            \* for each recording task, the timestamp of the
                         \* entry it has made (line 44), None before
    lk_seen,             \* for each reading task, the sums it has read
    \* ---- router_config.py: one call of resolve_target
    rs_config,           \* the RouterConfig
    rs_tier,             \* the tier, "" before
    rs_exclude,          \* exclude_providers
    rs_target,           \* [returned |-> what the call returned], None before
    \* ---- proxy.py: one trackable response that is not an event stream
    bf_response,         \* the upstream response
    bf_model,            \* request_model
    bf_manager,          \* whether there is a budget manager
    bf_out               \* what _forward_via_httpx does with it, None before

None == [none |-> TRUE]

Min(a, b) == IF a <= b THEN a ELSE b

IsPrefix(p, s) ==
    /\ Len(p) <= Len(s)
    /\ \A i \in 1..Len(p) : p[i] = s[i]

(***************************************************************************)
(* cost_table.py                                                           *)
(***************************************************************************)

\* MODEL_COSTS in dict (insertion) order; prices in 1/1000 USD per 1M tokens.
MODEL_COSTS ==
   <<
      [name |-> <<"c", "l", "a", "u", "d", "e", "-", "o", "p", "u", "s", "-", "4", "-", "6">>,
       input_price |-> 15000, output_price |-> 75000],
      [name |-> <<"c", "l", "a", "u", "d", "e", "-", "o", "p", "u", "s", "-", "4", "-", "2", "0", "2", "5", "0", "5", "1", "4">>,
       input_price |-> 15000, output_price |-> 75000],
      [name |-> <<"c", "l", "a", "u", "d", "e", "-", "s", "o", "n", "n", "e", "t", "-", "4", "-", "5", "-", "2", "0", "2", "5", "0", "9", "2", "9">>,
       input_price |-> 3000, output_price |-> 15000],
      [name |-> <<"c", "l", "a", "u", "d", "e", "-", "s", "o", "n", "n", "e", "t", "-", "4", "-", "2", "0", "2", "5", "0", "5", "1", "4">>,
       input_price |-> 3000, output_price |-> 15000],
      [name |-> <<"c", "l", "a", "u", "d", "e", "-", "s", "o", "n", "n", "e", "t", "-", "3", "-", "5", "-", "2", "0", "2", "4", "1", "0", "2", "2">>,
       input_price |-> 3000, output_price |-> 15000],
      [name |-> <<"c", "l", "a", "u", "d", "e", "-", "3", "-", "5", "-", "h", "a", "i", "k", "u", "-", "2", "0", "2", "4", "1", "0", "2", "2">>,
       input_price |-> 800, output_price |-> 4000],
      [name |-> <<"c", "l", "a", "u", "d", "e", "-", "3", "-", "h", "a", "i", "k", "u", "-", "2", "0", "2", "4", "0", "3", "0", "7">>,
       input_price |-> 250, output_price |-> 1250],
      [name |-> <<"g", "p", "t", "-", "4", "o">>,
       input_price |-> 2500, output_price |-> 10000],
      [name |-> <<"g", "p", "t", "-", "4", "o", "-", "m", "i", "n", "i">>,
       input_price |-> 150, output_price |-> 600],
      [name |-> <<"g", "p", "t", "-", "4", "-", "t", "u", "r", "b", "o">>,
       input_price |-> 10000, output_price |-> 30000],
      [name |-> <<"g", "p", "t", "-", "4">>,
       input_price |-> 30000, output_price |-> 60000],
      [name |-> <<"g", "p", "t", "-", "3", ".", "5", "-", "t", "u", "r", "b", "o">>,
       input_price |-> 500, output_price |-> 1500],
      [name |-> <<"o", "1">>,
       input_price |-> 15000, output_price |-> 60000],
      [name |-> <<"o", "1", "-", "m", "i", "n", "i">>,
       input_price |-> 3000, output_price |-> 12000],
      [name |-> <<"o", "3", "-", "m", "i", "n", "i">>,
       input_price |-> 1100, output_price |-> 4400],
      [name |-> <<"g", "e", "m", "i", "n", "i", "-", "2", ".", "0", "-", "f", "l", "a", "s", "h">>,
       input_price |-> 100, output_price |-> 400],
      [name |-> <<"g", "e", "m", "i", "n", "i", "-", "1", ".", "5", "-", "f", "l", "a", "s", "h">>,
       input_price |-> 75, output_price |-> 300],
      [name |-> <<"g", "e", "m", "i", "n", "i", "-", "1", ".", "5", "-", "p", "r", "o">>,
       input_price |-> 1250, output_price |-> 5000],
      [name |-> <<"g", "e", "m", "i", "n", "i", "-", "2", ".", "0", "-", "p", "r", "o">>,
       input_price |-> 1250, output_price |-> 5000]
   >>

\* Conservative fallback for unknown models.
DEFAULT_INPUT_COST_PER_1M == 3000
DEFAULT_OUTPUT_COST_PER_1M == 15000

SetMin(S) == CHOOSE x \in S : \A y \in S : x <= y

\* MODEL_COSTS.get(model): the entry whose key is exactly model.
ExactCosts(model) ==
    {i \in 1..Len(MODEL_COSTS) : MODEL_COSTS[i].name = model}

\* The entries that match model by prefix, either way round.
PrefixCosts(model) ==
    {i \in 1..Len(MODEL_COSTS) :
        \/ IsPrefix(MODEL_COSTS[i].name, model)
        \/ IsPrefix(model, MODEL_COSTS[i].name)}

\* The costs get_cost settles on: exact key, else the first prefix match in
\* iteration order, else None.
lookup_costs(model) ==
    IF ExactCosts(model) # {} THEN MODEL_COSTS[SetMin(ExactCosts(model))]
    ELSE IF PrefixCosts(model) # {} THEN MODEL_COSTS[SetMin(PrefixCosts(model))]
    ELSE None

\* get_cost(model, input_tokens, output_tokens), in 1e-9 USD.
get_cost(model, input_tokens, output_tokens) ==
    LET costs == lookup_costs(model)
        input_price == IF costs = None THEN DEFAULT_INPUT_COST_PER_1M
                       ELSE costs.input_price
        output_price == IF costs = None THEN DEFAULT_OUTPUT_COST_PER_1M
                        ELSE costs.output_price
    IN  input_tokens * input_price + output_tokens * output_price

(***************************************************************************)
(* budget.py: BudgetManager                                                *)
(***************************************************************************)

HOUR == 3600
DAY == 86400
MONTH == 30 * DAY          \* monthly_spend: timedelta(days=30)
PRUNE_AGE == 31 * DAY      \* _prune: timedelta(days=31)

CostEntry(timestamp, model, input_tokens, output_tokens, cost_usd) ==
    [timestamp |-> timestamp, model |-> model,
     input_tokens |-> input_tokens, output_tokens |-> output_tokens,
     cost_usd |-> cost_usd]

BudgetWindow(limit_usd, warn_at_pct, downgrade_at_pct) ==
    [limit_usd |-> limit_usd, warn_at_pct |-> warn_at_pct,
     downgrade_at_pct |-> downgrade_at_pct]

\* The BudgetConfig dataclass: exactly these five fields.
BudgetConfig(hourly, daily, monthly, downgrade_steps, over_budget_action) ==
    [hourly |-> hourly, daily |-> daily, monthly |-> monthly,
     downgrade_steps |-> downgrade_steps,
     over_budget_action |-> over_budget_action]

\* _prune with cutoff = t - 31 days: pop from the left while the first
\* entry is older than the cutoff.
RECURSIVE prune(_, _)
prune(es, t) ==
    IF es # <<>> /\ es[1].timestamp < t - PRUNE_AGE
    THEN prune(Tail(es), t)
    ELSE es

\* record_cost with a plausible slip: the call to _prune is left out.
record_cost_unpruned(es, model, input_tokens, output_tokens, t_entry, t_prune) ==
    LET cost == get_cost(model, input_tokens, output_tokens)
        entry == CostEntry(t_entry, model, input_tokens, output_tokens, cost)
    IN  [entries |-> Append(es, entry), cost |-> cost]

\* record_cost with a plausible slip: the token counts are passed to
\* get_cost in the wrong order.
record_cost_swapped(es, model, input_tokens, output_tokens, t_entry, t_prune) ==
    LET cost == get_cost(model, output_tokens, input_tokens)
        entry == CostEntry(t_entry, model, input_tokens, output_tokens, cost)
    IN  [entries |-> prune(Append(es, entry), t_prune), cost |-> cost]

\* record_cost: the entry is stamped at t_entry (line 44), appended, and the
\* log pruned against the clock read at t_prune (line 58).
record_cost(es, model, input_tokens, output_tokens, t_entry, t_prune) ==
    LET cost == get_cost(model, input_tokens, output_tokens)
        entry == CostEntry(t_entry, model, input_tokens, output_tokens, cost)
    IN  [entries |-> prune(Append(es, entry), t_prune), cost |-> cost]

RECURSIVE SumCost(_)
SumCost(es) == IF es = <<>> THEN 0 ELSE es[1].cost_usd + SumCost(Tail(es))

InWindow(e, cutoff) == e.timestamp >= cutoff

\* _window_spend(window) read at time t.
window_spend(es, t, window) ==
    LET cutoff == t - window
    IN  SumCost(SelectSeq(es, LAMBDA e : InWindow(e, cutoff)))

hourly_spend(es, t) == window_spend(es, t, HOUR)
daily_spend(es, t) == window_spend(es, t, DAY)
monthly_spend(es, t) == window_spend(es, t, MONTH)

\* The list "checks" the three predicates build.
checks(cfg, es, t) ==
    << [window_config |-> cfg.hourly, spend |-> hourly_spend(es, t)],
       [window_config |-> cfg.daily, spend |-> daily_spend(es, t)],
       [window_config |-> cfg.monthly, spend |-> monthly_spend(es, t)] >>

\* spend >= limit_usd * pct / 100, without the division.
ReachesPct(spend, window_config, pct) ==
    spend * 100 >= window_config.limit_usd * pct

\* should_downgrade with a plausible slip: > in place of >=.
should_downgrade_strict(cfg, es, t) ==
    \E i \in 1..3 :
        LET c == checks(cfg, es, t)[i]
        IN  /\ c.window_config # None
            /\ c.spend * 100 >
                   c.window_config.limit_usd * c.window_config.downgrade_at_pct

should_downgrade(cfg, es, t) ==
    \E i \in 1..3 :
        LET c == checks(cfg, es, t)[i]
        IN  /\ c.window_config # None
            /\ ReachesPct(c.spend, c.window_config,
                          c.window_config.downgrade_at_pct)

is_warning(cfg, es, t) ==
    \E i \in 1..3 :
        LET c == checks(cfg, es, t)[i]
        IN  /\ c.window_config # None
            /\ ReachesPct(c.spend, c.window_config,
                          c.window_config.warn_at_pct)

is_over_budget(cfg, es, t) ==
    \E i \in 1..3 :
        LET c == checks(cfg, es, t)[i]
        IN  /\ c.window_config # None
            /\ c.spend >= c.window_config.limit_usd

(***************************************************************************)
(* budget.py: QuotaTracker                                                 *)
(***************************************************************************)

\* Header values as the strings they are: an RFC 3339 timestamp denoting the
\* instant at, a decimal integer, the empty string, or any other text.
Rfc3339(at) == [kind |-> "rfc3339", at |-> at]
Decimal(val) == [kind |-> "int", val |-> val]
EmptyString == [kind |-> "empty"]
Garbage == [kind |-> "garbage"]

H_TOKENS_LIMIT == "anthropic-ratelimit-tokens-limit"
H_TOKENS_REMAINING == "anthropic-ratelimit-tokens-remaining"
H_TOKENS_RESET == "anthropic-ratelimit-tokens-reset"
H_REQUESTS_LIMIT == "anthropic-ratelimit-requests-limit"
H_REQUESTS_REMAINING == "anthropic-ratelimit-requests-remaining"
H_REQUESTS_RESET == "anthropic-ratelimit-requests-reset"

\* headers.get(name) and headers.get(name, default)
HeaderGet(headers, name) ==
    IF name \in DOMAIN headers THEN headers[name] ELSE None
HeaderGetOr(headers, name, default) ==
    IF name \in DOMAIN headers THEN headers[name] ELSE default

\* datetime.fromisoformat(raw) raises ValueError unless raw is a timestamp.
IsoParses(raw) == raw.kind = "rfc3339"
fromisoformat(raw) == raw.at

\* int(raw) raises ValueError unless raw is a decimal integer.
IntParses(raw) == raw.kind = "int"
int(raw) == raw.val

QuotaSnapshot(tokens_limit, tokens_remaining, tokens_reset, requests_limit, requests_remaining, requests_reset, updated_at) ==
    [tokens_limit |-> tokens_limit, tokens_remaining |-> tokens_remaining,
     tokens_reset |-> tokens_reset, requests_limit |-> requests_limit,
     requests_remaining |-> requests_remaining,
     requests_reset |-> requests_reset, updated_at |-> updated_at]

\* update with two plausible slips: the snapshot is dropped when the
\* headers do not parse, or a missing integer header keeps the value of the
\* previous snapshot.
update_variant(prev, headers, t, on_error, keep) ==
    LET tokens_reset_raw == HeaderGet(headers, H_TOKENS_RESET)
        old(field) == IF keep /\ prev # None THEN Decimal(prev[field])
                      ELSE Decimal(0)
        requests_reset_raw ==
            HeaderGetOr(headers, H_REQUESTS_RESET, tokens_reset_raw)
        tl == HeaderGetOr(headers, H_TOKENS_LIMIT, old("tokens_limit"))
        tr == HeaderGetOr(headers, H_TOKENS_REMAINING, old("tokens_remaining"))
        rl == HeaderGetOr(headers, H_REQUESTS_LIMIT, old("requests_limit"))
        rr == HeaderGetOr(headers, H_REQUESTS_REMAINING,
                          old("requests_remaining"))
    IN  IF tokens_reset_raw = None \/ tokens_reset_raw = EmptyString
        THEN prev
        ELSE IF /\ IsoParses(tokens_reset_raw) /\ IsoParses(requests_reset_raw)
                /\ IntParses(tl) /\ IntParses(tr)
                /\ IntParses(rl) /\ IntParses(rr)
             THEN QuotaSnapshot(int(tl), int(tr),
                                fromisoformat(tokens_reset_raw), int(rl),
                                int(rr), fromisoformat(requests_reset_raw), t)
             ELSE on_error

update_forgetting(prev, headers, t) ==
    update_variant(prev, headers, t, None, FALSE)

update_merging(prev, headers, t) ==
    update_variant(prev, headers, t, prev, TRUE)

\* QuotaTracker.update(headers) at time t: the new value of _latest.
update(prev, headers, t) ==
    LET tokens_reset_raw == HeaderGet(headers, H_TOKENS_RESET)
    IN  IF tokens_reset_raw = None \/ tokens_reset_raw = EmptyString
        THEN prev      \* no quota headers present
        ELSE
          LET requests_reset_raw ==
                  HeaderGetOr(headers, H_REQUESTS_RESET, tokens_reset_raw)
              tl == HeaderGetOr(headers, H_TOKENS_LIMIT, Decimal(0))
              tr == HeaderGetOr(headers, H_TOKENS_REMAINING, Decimal(0))
              rl == HeaderGetOr(headers, H_REQUESTS_LIMIT, Decimal(0))
              rr == HeaderGetOr(headers, H_REQUESTS_REMAINING, Decimal(0))
          IN  IF /\ IsoParses(tokens_reset_raw)
                 /\ IsoParses(requests_reset_raw)
                 /\ IntParses(tl) /\ IntParses(tr)
                 /\ IntParses(rl) /\ IntParses(rr)
              THEN QuotaSnapshot(int(tl), int(tr),
                                 fromisoformat(tokens_reset_raw),
                                 int(rl), int(rr),
                                 fromisoformat(requests_reset_raw), t)
              ELSE prev    \* except (ValueError, TypeError): logged

\* should_max_push with a plausible slip: 0 <= in place of 0 <.
should_max_push_nonstrict(snapshot, push, t) ==
    IF snapshot = None THEN FALSE
    ELSE LET time_until_reset == snapshot.tokens_reset - t
         IN  /\ 0 <= time_until_reset
             /\ time_until_reset <= push * 60
             /\ snapshot.tokens_remaining > 0

\* should_max_push() at time t.  minutes_left = time_until_reset / 60 is not
\* rounded, so 0 < minutes_left <= push is compared in seconds.
should_max_push(snapshot, push, t) ==
    IF snapshot = None THEN FALSE
    ELSE LET time_until_reset == snapshot.tokens_reset - t
         IN  /\ 0 < time_until_reset
             /\ time_until_reset <= push * 60
             /\ snapshot.tokens_remaining > 0

(***************************************************************************)
(* router_config.py                                                        *)
(***************************************************************************)

ProviderConfig(name, type, base_url, api_key) ==
    [name |-> name, type |-> type, base_url |-> base_url, api_key |-> api_key]

TierModel(provider, model, extra_params) ==
    [provider |-> provider, model |-> model, extra_params |-> extra_params]

\* thresholds are in hundredths (0.7 is 70).
ClassifierConfig(router, thresholds, heuristic_bypass) ==
    [router |-> router, thresholds |-> thresholds,
     heuristic_bypass |-> heuristic_bypass]

\* providers maps a name to its ProviderConfig, tiers maps a tier name to its
\* list of TierModel; tier_order is list(tiers.keys()).
RouterConfig(enabled, providers, classifier, tiers, tier_order, budgets, default_tier) ==
    [enabled |-> enabled, providers |-> providers, classifier |-> classifier,
     tiers |-> tiers, tier_order |-> tier_order, budgets |-> budgets,
     default_tier |-> default_tier]

Range(s) == {s[i] : i \in 1..Len(s)}

\* order.index(tier), counted from 1.
IndexOf(order, tier) == SetMin({i \in 1..Len(order) : order[i] = tier})

\* The entries of the tier's list that resolve_target may return.
Eligible(config, tm, exclude) ==
    /\ tm.provider \notin exclude
    /\ tm.provider \in DOMAIN config.providers
    /\ config.providers[tm.provider].api_key # ""

\* resolve_target, were the provider's key not looked at.
resolve_target_keyless(config, tier, exclude) ==
    LET models == IF tier \in DOMAIN config.tiers THEN config.tiers[tier]
                  ELSE <<>>
        ok == {i \in 1..Len(models) :
                  /\ models[i].provider \notin exclude
                  /\ models[i].provider \in DOMAIN config.providers}
    IN  IF ok = {} THEN None
        ELSE LET tm == models[SetMin(ok)]
             IN  [provider |-> config.providers[tm.provider],
                  model |-> tm.model, extra_params |-> tm.extra_params]

\* resolve_target(config, tier, exclude_providers): the first eligible entry
\* as (provider, model, extra_params), or None.
resolve_target(config, tier, exclude) ==
    LET models == IF tier \in DOMAIN config.tiers THEN config.tiers[tier]
                  ELSE <<>>
        ok == {i \in 1..Len(models) : Eligible(config, models[i], exclude)}
    IN  IF ok = {} THEN None
        ELSE LET tm == models[SetMin(ok)]
             IN  [provider |-> config.providers[tm.provider],
                  model |-> tm.model, extra_params |-> tm.extra_params]

\* downgrade_tier with a plausible slip: always one step, whatever steps is.
downgrade_tier_single(config, tier, steps) ==
    LET order == config.tier_order
    IN  IF order = <<>> THEN tier
        ELSE IF tier \notin Range(order) THEN tier
        ELSE order[Min(IndexOf(order, tier) + 1, Len(order))]

\* downgrade_tier(config, tier, steps), for steps >= 0.  Indices count from
\* 1 here, so min(idx + steps, len(order) - 1) reads Min(idx + steps, Len).
downgrade_tier(config, tier, steps) ==
    LET order == config.tier_order
    IN  IF order = <<>> THEN tier
        ELSE IF tier \notin Range(order) THEN tier
        ELSE order[Min(IndexOf(order, tier) + steps, Len(order))]

lowest_tier(config) ==
    IF config.tier_order # <<>>
    THEN config.tier_order[Len(config.tier_order)]
    ELSE config.default_tier

(***************************************************************************)
(* proxy.py: SSETokenExtractor                                             *)
(*                                                                         *)
(* A byte string is a sequence of symbols.  Each symbol stands for a run   *)
(* of bytes without a newline, except NL, which is the single byte "\n";   *)
(* a chunk boundary can fall between any two symbols.                      *)
(***************************************************************************)

NL == "\n"
DATA_PREFIX == <<"da", "ta: ">>    \* b"data: "
DONE == <<"[DONE]">>               \* b"[DONE]"

\* JSON values.
JObj(members) == [t |-> "dict", v |-> members]
JStr(s) == [t |-> "str", v |-> s]
JNum(n) == [t |-> "int", v |-> n]
JArr(items) == [t |-> "list", v |-> items]
JBool(b) == [t |-> "bool", v |-> b]
JList == JArr(<<JStr(<<"usage">>)>>)

isinstance_dict(val) == val # None /\ val.t = "dict"
isinstance_str(val) == val # None /\ val.t = "str"
isinstance_list(val) == val # None /\ val.t = "list"

\* "key in d" and d.get(key, default) for a JSON object d.
In(key, d) == key \in DOMAIN d.v
Get(d, key, default) == IF In(key, d) THEN d.v[key] ELSE default

\* The JSON texts that occur on event lines.  A text is "{" body "}" for an
\* object, or the single symbol "B" for a value that is not an object.
\*   S  Anthropic message_start   E  Anthropic message_delta
\*   O  OpenAI final chunk        B  a JSON array holding the word "usage"
ObjectBodies == {"S", "E", "O"}

BodyValue(b) ==
    CASE b = "S" ->
           JObj([type |-> JStr(<<"message_start">>),
                 message |-> JObj([
                     model |-> JStr(<<"c", "l", "a", "u", "d", "e">>),
                     usage |-> JObj([input_tokens |-> JNum(10),
                                     cache_read_input_tokens |-> JNum(1),
                                     cache_creation_input_tokens |-> JNum(2)])])])
      [] b = "E" ->
           JObj([type |-> JStr(<<"message_delta">>),
                 usage |-> JObj([output_tokens |-> JNum(20)])])
      [] b = "O" ->
           JObj([model |-> JStr(<<"g", "p", "t", "-", "4", "o">>),
                 usage |-> JObj([prompt_tokens |-> JNum(3),
                                 completion_tokens |-> JNum(4)])])

\* b'"usage"' in payload or b'"model"' in payload
needs_parse(payload) ==
    \E i \in 1..Len(payload) : payload[i] \in ObjectBodies \cup {"B"}

\* json.loads(payload): [ok |-> TRUE, obj |-> value], or ok FALSE for
\* JSONDecodeError.
json_loads(payload) ==
    IF Len(payload) = 3 /\ payload[1] = "{" /\ payload[3] = "}"
       /\ payload[2] \in ObjectBodies
    THEN [ok |-> TRUE, obj |-> BodyValue(payload[2])]
    ELSE IF payload = <<"B">> THEN [ok |-> TRUE, obj |-> JList]
    ELSE [ok |-> FALSE]

\* A new SSETokenExtractor.
SSETokenExtractor ==
    [line_buffer |-> <<>>, input_tokens |-> 0, output_tokens |-> 0,
     cache_read_input_tokens |-> 0, cache_creation_input_tokens |-> 0,
     model |-> None]

\* The outcome of a method: the extractor afterwards, and whether the call
\* raised.
Returned(ex) == [ex |-> ex, raised |-> FALSE]
Raised(ex) == [ex |-> ex, raised |-> TRUE]

\* "not self.model"
NoModel(ex) == ex.model = None \/ (ex.model.t = "str" /\ ex.model.v = <<>>)

\* _extract, lines 107-114: the model name, first one seen wins.
ExtractModel(ex, obj) ==
    LET msg == Get(obj, "message", None)
    IN  IF ~NoModel(ex) THEN ex
        ELSE IF isinstance_dict(msg) /\ In("model", msg)
             THEN [ex EXCEPT !.model = msg.v["model"]]
        ELSE IF In("model", obj)
             THEN [ex EXCEPT !.model = Get(obj, "model", None)]
        ELSE ex

\* _extract, lines 117-123: Anthropic message_start.
ExtractMessageUsage(ex, obj) ==
    LET msg == Get(obj, "message", None)
        usage == IF isinstance_dict(msg) THEN Get(msg, "usage", None) ELSE None
    IN  IF isinstance_dict(msg) /\ isinstance_dict(usage)
        THEN [ex EXCEPT
                 !.input_tokens = @ + Get(usage, "input_tokens", JNum(0)).v,
                 !.cache_read_input_tokens =
                     @ + Get(usage, "cache_read_input_tokens", JNum(0)).v,
                 !.cache_creation_input_tokens =
                     @ + Get(usage, "cache_creation_input_tokens", JNum(0)).v]
        ELSE ex

\* _extract, lines 126-128: Anthropic message_delta.
ExtractDeltaUsage(ex, obj) ==
    LET usage == Get(obj, "usage", None)
    IN  IF isinstance_dict(usage) /\ ~In("message", obj)
        THEN [ex EXCEPT
                 !.output_tokens = @ + Get(usage, "output_tokens", JNum(0)).v]
        ELSE ex

\* _extract, lines 131-134: OpenAI final chunk.
ExtractOpenAIUsage(ex, obj) ==
    LET usage == Get(obj, "usage", None)
    IN  IF isinstance_dict(usage) /\ In("prompt_tokens", usage)
        THEN [ex EXCEPT
                 !.input_tokens = @ + Get(usage, "prompt_tokens", JNum(0)).v,
                 !.output_tokens =
                     @ + Get(usage, "completion_tokens", JNum(0)).v]
        ELSE ex

\* _extract(obj).  obj.get on a value that is not an object raises
\* AttributeError before anything is changed.
extract(ex, obj) ==
    IF ~isinstance_dict(obj) THEN Raised(ex)
    ELSE Returned(ExtractOpenAIUsage(
             ExtractDeltaUsage(
                 ExtractMessageUsage(ExtractModel(ex, obj), obj), obj), obj))

\* _process_line(line)
process_line(ex, line) ==
    IF ~IsPrefix(DATA_PREFIX, line) THEN Returned(ex)
    ELSE LET payload == SubSeq(line, Len(DATA_PREFIX) + 1, Len(line))
         IN  IF payload = DONE THEN Returned(ex)
             ELSE IF ~needs_parse(payload) THEN Returned(ex)
             ELSE LET parsed == json_loads(payload)
                  IN  IF ~parsed.ok THEN Returned(ex)
                      ELSE extract(ex, parsed.obj)

\* data.split(b"\n")
RECURSIVE split(_)
split(data) ==
    LET at == {i \in 1..Len(data) : data[i] = NL}
    IN  IF at = {} THEN <<data>>
        ELSE <<SubSeq(data, 1, SetMin(at) - 1)>>
                 \o split(SubSeq(data, SetMin(at) + 1, Len(data)))

\* for line in lines: self._process_line(line), up to the first raise.
RECURSIVE process_lines(_, _)
process_lines(ex, lines) ==
    IF lines = <<>> THEN Returned(ex)
    ELSE LET r == process_line(ex, Head(lines))
         IN  IF r.raised THEN r ELSE process_lines(r.ex, Tail(lines))

\* feed with a plausible slip: the trailing partial line is processed at
\* once instead of being kept in the buffer.
feed_unbuffered(ex, chunk) ==
    process_lines([ex EXCEPT !.line_buffer = <<>>],
                  split(ex.line_buffer \o chunk))

\* feed(chunk)
feed(ex, chunk) ==
    LET lines == split(ex.line_buffer \o chunk)
    IN  process_lines([ex EXCEPT !.line_buffer = lines[Len(lines)]],
                      SubSeq(lines, 1, Len(lines) - 1))

\* finalize()
finalize(ex) ==
    IF ex.line_buffer # <<>>
    THEN LET r == process_line(ex, ex.line_buffer)
         IN  IF r.raised THEN r
             ELSE Returned([r.ex EXCEPT !.line_buffer = <<>>])
    ELSE Returned(ex)

has_usage(ex) == ex.input_tokens > 0 \/ ex.output_tokens > 0

(***************************************************************************)
(* proxy.py: hidden-Unicode detection and stripping                        *)
(*                                                                         *)
(* A text is a sequence of code points (ord(ch) of each character).        *)
(***************************************************************************)

HIDDEN_UNICODE_RANGES ==
    << <<8203, 8207>>,       \* 0x200B-0x200F zero-width chars + LRM/RLM
       <<8234, 8238>>,       \* 0x202A-0x202E bidi overrides
       <<8288, 8292>>,       \* 0x2060-0x2064 invisible operators
       <<8294, 8297>>,       \* 0x2066-0x2069 bidi isolates
       <<173, 173>>,         \* 0x00AD soft hyphen
       <<1564, 1564>>,       \* 0x061C arabic letter mark
       <<65279, 65279>>,     \* 0xFEFF BOM / zero-width no-break space
       <<917505, 917631>> >> \* 0xE0001-0xE007F tag characters

\* The inner loop of both functions: cp lies in one of the ranges.
IsHidden(cp) ==
    \E r \in 1..Len(HIDDEN_UNICODE_RANGES) :
        HIDDEN_UNICODE_RANGES[r][1] <= cp /\ cp <= HIDDEN_UNICODE_RANGES[r][2]

HexDigits ==
    <<"0", "1", "2", "3", "4", "5", "6", "7", "8", "9",
      "A", "B", "C", "D", "E", "F">>

RECURSIVE ToHex(_)
ToHex(n) ==
    IF n < 16 THEN <<HexDigits[n + 1]>>
    ELSE ToHex(n \div 16) \o <<HexDigits[(n % 16) + 1]>>

RECURSIVE ZeroPad(_, _)
ZeroPad(s, width) == IF Len(s) >= width THEN s ELSE ZeroPad(<<"0">> \o s, width)

\* f"U+{cp:04X}"
FormatCodepoint(cp) == <<"U", "+">> \o ZeroPad(ToHex(cp), 4)

\* unicodedata.name(ch, "UNKNOWN"), for the hidden code points that texts of
\* this model contain.
unicodedata_name(cp) ==
    CASE cp = 173 -> "SOFT HYPHEN"
      [] cp = 1564 -> "ARABIC LETTER MARK"
      [] cp = 8203 -> "ZERO WIDTH SPACE"
      [] cp = 8207 -> "RIGHT-TO-LEFT MARK"
      [] cp = 8234 -> "LEFT-TO-RIGHT EMBEDDING"
      [] cp = 8238 -> "RIGHT-TO-LEFT OVERRIDE"
      [] cp = 8288 -> "WORD JOINER"
      [] cp = 8292 -> "INVISIBLE PLUS"
      [] cp = 8294 -> "LEFT-TO-RIGHT ISOLATE"
      [] cp = 8297 -> "POP DIRECTIONAL ISOLATE"
      [] cp = 65279 -> "ZERO WIDTH NO-BREAK SPACE"
      [] cp = 917505 -> "LANGUAGE TAG"
      [] cp = 917631 -> "CANCEL TAG"
      [] OTHER -> "UNKNOWN"

Finding(cp, position) ==
    [codepoint |-> FormatCodepoint(cp), position |-> position,
     name |-> unicodedata_name(cp)]

\* detect_hidden_unicode(text); positions count from 0.
RECURSIVE detect_from(_, _)
detect_from(text, i) ==
    IF i > Len(text) THEN <<>>
    ELSE (IF IsHidden(text[i]) THEN <<Finding(text[i], i - 1)>> ELSE <<>>)
             \o detect_from(text, i + 1)

detect_hidden_unicode(text) == detect_from(text, 1)

\* strip_hidden_unicode with a plausible slip: only the first hidden
\* character is removed.
RECURSIVE strip_first_hidden(_)
strip_first_hidden(text) ==
    IF text = <<>> THEN <<>>
    ELSE IF IsHidden(Head(text)) THEN Tail(text)
    ELSE <<Head(text)>> \o strip_first_hidden(Tail(text))

\* strip_hidden_unicode(text)
RECURSIVE strip_hidden_unicode(_)
strip_hidden_unicode(text) ==
    IF text = <<>> THEN <<>>
    ELSE (IF IsHidden(Head(text)) THEN <<>> ELSE <<Head(text)>>)
             \o strip_hidden_unicode(Tail(text))

(***************************************************************************)
(* proxy.py: the guard stage                                               *)
(*                                                                         *)
(* A request body is a JSON object; its texts are sequences of code        *)
(* points, its other strings (roles, block types) are plain strings.       *)
(***************************************************************************)

\* block.get("type") == "text"
IsTextBlock(block) ==
    isinstance_dict(block) /\ Get(block, "type", None) = JStr("text")

\* [block.get("text", "") for block in blocks if it is a text block]
RECURSIVE BlockTexts(_)
BlockTexts(blocks) ==
    IF blocks = <<>> THEN <<>>
    ELSE (IF IsTextBlock(Head(blocks))
          THEN <<Get(Head(blocks), "text", JStr(<<>>)).v>> ELSE <<>>)
             \o BlockTexts(Tail(blocks))

\* The texts of a system field or of a message content: a string, or the
\* text blocks of a list.
TextsOf(val) ==
    IF isinstance_str(val) THEN <<val.v>>
    ELSE IF isinstance_list(val) THEN BlockTexts(val.v)
    ELSE <<>>

\* The messages loop of extract_messages (lines 267-277).
RECURSIVE MessageTexts(_, _)
MessageTexts(msgs, provider) ==
    IF msgs = <<>> THEN <<>>
    ELSE LET msg == Head(msgs)
             role == Get(msg, "role", JStr(""))
         IN  (IF role = JStr("user")
                 \/ (provider = "openai" /\ role = JStr("system"))
              THEN TextsOf(Get(msg, "content", JStr(<<>>))) ELSE <<>>)
                 \o MessageTexts(Tail(msgs), provider)

\* extract_messages(body), with LLM_API_PROVIDER
extract_messages(body, provider) ==
    TextsOf(Get(body, "system", None))
        \o MessageTexts(Get(body, "messages", JArr(<<>>)).v, provider)

\* all_findings of check_hidden_unicode
RECURSIVE AllFindings(_)
AllFindings(messages) ==
    IF messages = <<>> THEN <<>>
    ELSE detect_hidden_unicode(Head(messages)) \o AllFindings(Tail(messages))

\* check_hidden_unicode, were every finding listed in the reason.
check_hidden_unicode_all(messages, guard_enabled, strip_enabled) ==
    LET all_findings == AllFindings(messages)
    IN  IF ~guard_enabled THEN None
        ELSE IF all_findings = <<>> THEN None
        ELSE IF strip_enabled THEN None
        ELSE [blocked |-> TRUE,
              reason |-> [i \in 1..Len(all_findings) |->
                             all_findings[i].codepoint],
              count |-> Len(all_findings)]

\* check_hidden_unicode(messages): None, or the block info.
check_hidden_unicode(messages, guard_enabled, strip_enabled) ==
    LET all_findings == AllFindings(messages)
        first == SubSeq(all_findings, 1, Min(10, Len(all_findings)))
    IN  IF ~guard_enabled THEN None
        ELSE IF all_findings = <<>> THEN None
        ELSE IF strip_enabled THEN None
        ELSE [blocked |-> TRUE,
              reason |-> [i \in 1..Len(first) |-> first[i].codepoint],
              count |-> Len(all_findings)]

\* The text blocks of a list with their text stripped.
StripBlocks(blocks) ==
    [i \in 1..Len(blocks) |->
        IF IsTextBlock(blocks[i])
        THEN JObj([k \in DOMAIN blocks[i].v \cup {"text"} |->
                     IF k = "text"
                     THEN JStr(strip_hidden_unicode(
                                   Get(blocks[i], "text", JStr(<<>>)).v))
                     ELSE blocks[i].v[k]])
        ELSE blocks[i]]

\* A system field or message content with its texts stripped.
StripValue(val) ==
    IF isinstance_str(val) THEN JStr(strip_hidden_unicode(val.v))
    ELSE IF isinstance_list(val) THEN JArr(StripBlocks(val.v))
    ELSE val

\* One message of the loop of strip_hidden_unicode_from_body: a string
\* content is always set, a list content is stripped in place.
StripMessage(msg) ==
    LET content == Get(msg, "content", JStr(<<>>))
    IN  IF isinstance_str(content) \/ In("content", msg)
        THEN JObj([k \in DOMAIN msg.v \cup {"content"} |->
                     IF k = "content" THEN StripValue(content)
                     ELSE msg.v[k]])
        ELSE msg

\* strip_hidden_unicode_from_body(body)
strip_hidden_unicode_from_body(body) ==
    JObj([k \in DOMAIN body.v |->
            IF k = "system" THEN StripValue(body.v[k])
            ELSE IF k = "messages"
                 THEN JArr([i \in 1..Len(body.v[k].v) |->
                               StripMessage(body.v[k].v[i])])
            ELSE body.v[k]])

\* What the guard service does with a request: it cannot be reached (or
\* answers with garbage), or it answers with a status and a score (in
\* hundredths).
GuardUnreachable == [unreachable |-> TRUE]
GuardReply(status_code, score) ==
    [unreachable |-> FALSE, status_code |-> status_code, score |-> score]

\* An exception inside check_guard's try block (lines 352-363): the POST
\* fails ("network"), it times out ("timeout"), or resp.json() cannot
\* parse the 200 answer ("unparsable").
GuardRaises(cause) == [unreachable |-> TRUE, cause |-> cause]

\* check_guard with a plausible slip: a score equal to the threshold does
\* not block.
check_guard_strict(guard_enabled, guard_url, guard_threshold, reply) ==
    IF ~guard_enabled \/ guard_url = "" THEN None
    ELSE IF reply.unreachable THEN None
    ELSE IF reply.status_code = 200 /\ reply.score > guard_threshold
         THEN [blocked |-> TRUE, score |-> reply.score]
    ELSE None

\* check_guard(messages): None, or the block info.
check_guard(guard_enabled, guard_url, guard_threshold, reply) ==
    IF ~guard_enabled \/ guard_url = "" THEN None
    ELSE IF reply.unreachable THEN None
    ELSE IF reply.status_code = 200 /\ reply.score >= guard_threshold
         THEN [blocked |-> TRUE, score |-> reply.score]
    ELSE None

(***************************************************************************)
(* classifier.py                                                           *)
(*                                                                         *)
(* The module globals are the record [config, tier_order, controller];     *)
(* controller is TRUE when the RouteLLM controller was built.  A score is  *)
(* in hundredths, like the thresholds.                                     *)
(***************************************************************************)

ClassifierGlobals(config, tier_order, controller) ==
    [config |-> config, tier_order |-> tier_order, controller |-> controller]

\* init_classifier(config, tier_order); routellm tells whether the RouteLLM
\* controller can be built.
init_classifier(config, tier_order, routellm) ==
    ClassifierGlobals(config, tier_order, routellm)

\* Python truth of a JSON value (None is an absent key).
Truthy(val) ==
    /\ val # None
    /\ CASE val.t = "bool" -> val.v
         [] val.t = "int" -> val.v # 0
         [] val.t = "str" -> Len(val.v) > 0
         [] val.t = "list" -> Len(val.v) > 0
         [] val.t = "dict" -> DOMAIN val.v # {}
         [] OTHER -> FALSE

\* Index of the last message whose role is "user", 0 if there is none.
LastUser(messages) ==
    LET us == {i \in 1..Len(messages) :
                   /\ messages[i].t = "dict"
                   /\ Get(messages[i], "role", None) = JStr("user")}
    IN  IF us = {} THEN 0 ELSE CHOOSE i \in us : \A j \in us : j <= i

RECURSIVE SumLen(_)
SumLen(texts) == IF texts = <<>> THEN 0 ELSE Len(Head(texts)) + SumLen(Tail(texts))

\* " ".join(texts)
RECURSIVE JoinSpace(_)
JoinSpace(texts) ==
    IF texts = <<>> THEN <<>>
    ELSE IF Len(texts) = 1 THEN Head(texts)
    ELSE Head(texts) \o <<32>> \o JoinSpace(Tail(texts))

\* _extract_prompt_text(body)
extract_prompt_text(body) ==
    LET messages == Get(body, "messages", JArr(<<>>)).v
        content == Get(messages[LastUser(messages)], "content", JStr(<<>>))
    IN  IF LastUser(messages) = 0 THEN <<>>
        ELSE IF isinstance_str(content) THEN content.v
        ELSE IF isinstance_list(content) THEN JoinSpace(BlockTexts(content.v))
        ELSE <<>>

\* _heuristic_classify with a plausible slip: a last user message of
\* exactly 200 characters still counts as short.
heuristic_classify_loose(cls, body) ==
    LET messages == Get(body, "messages", JArr(<<>>)).v
        tools == Get(body, "tools", JArr(<<>>)).v
        msg_count == Len(messages)
        tool_count == Len(tools)
        content == Get(messages[LastUser(messages)], "content", JStr(<<>>))
        last_user_len ==
            IF LastUser(messages) = 0 THEN 0
            ELSE IF isinstance_str(content) THEN Len(content.v)
            ELSE IF isinstance_list(content) THEN SumLen(BlockTexts(content.v))
            ELSE 0
    IN  IF cls.tier_order = <<>> THEN None
        ELSE IF msg_count <= 3 /\ tool_count = 0 /\ last_user_len <= 200
             THEN [tier |-> cls.tier_order[Len(cls.tier_order)]]
        ELSE IF msg_count > 20 \/ tool_count > 5
             THEN [tier |-> cls.tier_order[1]]
        ELSE IF Truthy(Get(body, "thinking", None))
                \/ Truthy(Get(body, "extended_thinking", None))
             THEN [tier |-> cls.tier_order[1]]
        ELSE None

\* _heuristic_classify(body): None, or [tier |-> the tier].
heuristic_classify(cls, body) ==
    LET messages == Get(body, "messages", JArr(<<>>)).v
        tools == Get(body, "tools", JArr(<<>>)).v
        msg_count == Len(messages)
        tool_count == Len(tools)
        content == Get(messages[LastUser(messages)], "content", JStr(<<>>))
        last_user_len ==
            IF LastUser(messages) = 0 THEN 0
            ELSE IF isinstance_str(content) THEN Len(content.v)
            ELSE IF isinstance_list(content) THEN SumLen(BlockTexts(content.v))
            ELSE 0
    IN  IF cls.tier_order = <<>> THEN None
        ELSE IF msg_count <= 3 /\ tool_count = 0 /\ last_user_len < 200
             THEN [tier |-> cls.tier_order[Len(cls.tier_order)]]
        ELSE IF msg_count > 20 \/ tool_count > 5
             THEN [tier |-> cls.tier_order[1]]
        ELSE IF Truthy(Get(body, "thinking", None))
                \/ Truthy(Get(body, "extended_thinking", None))
             THEN [tier |-> cls.tier_order[1]]
        ELSE None

\* What the RouteLLM router does with a prompt: it raises, or it gives a
\* score.
MlRaises == [raises |-> TRUE]
MlScore(score) == [raises |-> FALSE, score |-> score]

\* The threshold walk with a plausible slip: a score equal to a threshold
\* counts as exceeding it.
ThresholdTier_inclusive(cls, score, default_tier) ==
    LET thresholds == cls.config.thresholds
        hit == {i \in 1..Len(thresholds) : score >= thresholds[i]}
    IN  IF hit = {} THEN cls.tier_order[Len(cls.tier_order)]
        ELSE IF SetMin(hit) <= Len(cls.tier_order)
             THEN cls.tier_order[SetMin(hit)]
        ELSE default_tier

\* The threshold walk of classify_request (lines 165-169).  The index of the
\* first threshold the score exceeds, 0 if none; tier_order[i] raises
\* IndexError (caught, default tier) when there is no such tier.
ThresholdTier(cls, score, default_tier) ==
    LET thresholds == cls.config.thresholds
        hit == {i \in 1..Len(thresholds) : score > thresholds[i]}
    IN  IF hit = {} THEN cls.tier_order[Len(cls.tier_order)]
        ELSE IF SetMin(hit) <= Len(cls.tier_order)
             THEN cls.tier_order[SetMin(hit)]
        ELSE default_tier

\* classify_request(body, default_tier)
classify_request(cls, body, default_tier, ml) ==
    LET heuristic_result == heuristic_classify(cls, body)
    IN  IF cls.config = None \/ cls.tier_order = <<>> THEN default_tier
        ELSE IF cls.config.heuristic_bypass /\ heuristic_result # None
             THEN heuristic_result.tier
        ELSE IF ~cls.controller THEN default_tier
        ELSE IF extract_prompt_text(body) = <<>> THEN default_tier
        ELSE IF ml.raises THEN default_tier
        ELSE ThresholdTier(cls, ml.score, default_tier)

\* ---- Bodies of any shape.  messages and tools may be a list, a text or a
\* number; an element of messages may be anything; the text of a block may
\* be a text, a list or a number.  len(x) raises TypeError for a number,
\* x.get raises AttributeError unless x is a dict.

Sized(val) == val.t \in {"str", "list"}

\* "for msg in reversed(messages): if msg.get("role") == "user": ... break",
\* from index i down: the index of the last user message (0 if none), or
\* AttributeError at the first element reached that is not a dict.
RECURSIVE ScanLastUser(_, _)
ScanLastUser(messages, i) ==
    IF i = 0 THEN Returned(0)
    ELSE IF ~isinstance_dict(messages[i]) THEN Raised("AttributeError")
    ELSE IF Get(messages[i], "role", None) = JStr("user") THEN Returned(i)
    ELSE ScanLastUser(messages, i - 1)

\* The loop over the messages of a body: a text is iterated by characters,
\* which have no get.
ScanMessages(messages) ==
    IF messages.t = "str"
    THEN (IF messages.v = <<>> THEN Returned(0) ELSE Raised("AttributeError"))
    ELSE ScanLastUser(messages.v, Len(messages.v))

\* The texts of the text blocks of a content list that satisfy ok.
TextBlocksAll(blocks, ok(_)) ==
    \A i \in 1..Len(blocks) :
        IsTextBlock(blocks[i]) => ok(Get(blocks[i], "text", JStr(<<>>)))

\* The content of the message the scan stops at.
ContentAt(messages, k) == Get(messages.v[k], "content", JStr(<<>>))

\* _heuristic_classify(body) for a body of any shape: what heuristic_classify
\* gives, or the exception of len(messages), len(tools), msg.get or
\* len(b.get("text", "")).
heuristic_classify_outcome(cls, body) ==
    LET messages == Get(body, "messages", JArr(<<>>))
        tools == Get(body, "tools", JArr(<<>>))
        scan == ScanMessages(messages)
    IN  IF cls.tier_order = <<>> THEN Returned(None)
        ELSE IF ~Sized(messages) \/ ~Sized(tools) THEN Raised("TypeError")
        ELSE IF scan.raised THEN scan
        ELSE IF /\ scan.ex > 0
                /\ isinstance_list(ContentAt(messages, scan.ex))
                /\ ~TextBlocksAll(ContentAt(messages, scan.ex).v, Sized)
             THEN Raised("TypeError")
        ELSE Returned(heuristic_classify(cls, body))

\* _extract_prompt_text(body) raises: reversed(messages) of a number, msg.get
\* of an element that is not a dict, or " ".join of a text that is not a str.
ExtractRaises(body) ==
    LET messages == Get(body, "messages", JArr(<<>>))
        scan == ScanMessages(messages)
    IN  \/ ~Sized(messages)
        \/ scan.raised
        \/ /\ scan.ex > 0
           /\ isinstance_list(ContentAt(messages, scan.ex))
           /\ ~TextBlocksAll(ContentAt(messages, scan.ex).v, isinstance_str)

\* classify_request(body, default_tier) for a body of any shape: the tier
\* returned, or the exception that reaches the caller.  The heuristic
\* pre-filter is called outside the try block (lines 144-148); extraction
\* and scoring are inside it (lines 155-176).
classify_request_outcome(cls, body, default_tier, ml) ==
    LET h == IF cls.config.heuristic_bypass
             THEN heuristic_classify_outcome(cls, body)
             ELSE Returned(None)
    IN  IF cls.config = None \/ cls.tier_order = <<>>
        THEN Returned(default_tier)
        ELSE IF h.raised THEN h
        ELSE IF h.ex # None THEN Returned(h.ex.tier)
        ELSE IF ~cls.controller THEN Returned(default_tier)
        ELSE IF ExtractRaises(body) THEN Returned(default_tier)
        ELSE Returned(classify_request(cls, body, default_tier, ml))

(***************************************************************************)
(* proxy.py: configuration from the environment, and startup               *)
(***************************************************************************)

\* The module-level configuration (lines 33-43), and what startup finds:
\* config_file is what load_config() returns (None when the file is missing
\* or invalid), routellm tells whether the RouteLLM controller can be built.
\* LLM_API_KEY is a sequence of parts, GUARD_THRESHOLD is in hundredths.
Environment(llm_api_key, llm_api_provider, guard_url, guard_enabled, guard_strip, smart_router_enabled, config_file, routellm) ==
    [LLM_API_BASE |-> "https://api.anthropic.com",
     LLM_API_KEY |-> llm_api_key,
     LLM_API_PROVIDER |-> llm_api_provider,
     IS_OAUTH_TOKEN |-> IsPrefix(<<"sk-ant-oat">>, llm_api_key),
     GUARD_URL |-> guard_url,
     GUARD_ENABLED |-> guard_enabled,
     GUARD_THRESHOLD |-> 80,
     GUARD_STRIP_HIDDEN_UNICODE |-> guard_strip,
     SMART_ROUTER_ENABLED |-> smart_router_enabled,
     config_file |-> config_file,
     routellm |-> routellm]

\* An object that exists (is not None); its fields are variables.
Created == [created |-> TRUE]

\* The smart router state (lines 50-54) and the classifier's globals.
Globals(router_config_, budget_manager_, budget_config_, quota_tracker_, push_within_minutes_, smart_router_ready_, classifier_) ==
    [router_config |-> router_config_, budget_manager |-> budget_manager_,
     budget_config |-> budget_config_, quota_tracker |-> quota_tracker_,
     push_within_minutes |-> push_within_minutes_,
     smart_router_ready |-> smart_router_ready_, classifier |-> classifier_]

\* The state at import time.
InitialGlobals ==
    Globals(None, None, None, None, 15, FALSE,
            ClassifierGlobals(None, <<>>, FALSE))

\* obj.name: [ok |-> TRUE, val |-> the value], or ok FALSE for
\* AttributeError when the object has no such attribute.
GetAttr(obj, name) ==
    IF name \in DOMAIN obj THEN [ok |-> TRUE, val |-> obj[name]]
    ELSE [ok |-> FALSE]

\* _init_smart_router().  Each assignment to a global is kept when a later
\* statement raises: the except clause only sets _smart_router_ready.
init_smart_router(env) ==
    LET config == env.config_file
        loaded == [InitialGlobals EXCEPT !.router_config = config]
        with_budget ==
            [loaded EXCEPT
                !.classifier = init_classifier(config.classifier,
                                               config.tier_order, env.routellm),
                !.budget_manager = Created,
                !.budget_config = config.budgets]
        push == GetAttr(config.budgets, "max_push_within_minutes")
    IN  IF ~env.SMART_ROUTER_ENABLED THEN InitialGlobals
        ELSE IF config = None THEN loaded
        ELSE IF ~config.enabled THEN loaded
        ELSE IF ~push.ok
             THEN [with_budget EXCEPT !.smart_router_ready = FALSE]
        ELSE [with_budget EXCEPT !.quota_tracker = Created,
                                 !.push_within_minutes = push.val,
                                 !.smart_router_ready = TRUE]

(***************************************************************************)
(* router_config.py: the budgets section                                   *)
(*                                                                         *)
(* The section is the mapping yaml.safe_load gives: a JObj whose members   *)
(* are numbers, strings and mappings.                                      *)
(***************************************************************************)

\* _parse_budget_window(raw), for a window that has limit_usd.
parse_budget_window(raw) ==
    BudgetWindow(raw.v["limit_usd"].v,
                 Get(raw, "warn_at_pct", JNum(80)).v,
                 Get(raw, "downgrade_at_pct", JNum(90)).v)

\* config.<window> after the three "if ... in raw and isinstance(..., dict)"
WindowOf(raw, name) ==
    IF In(name, raw) /\ isinstance_dict(raw.v[name])
    THEN parse_budget_window(raw.v[name])
    ELSE None

\* _parse_budgets(raw): BudgetConfig is built from downgrade_steps and
\* over_budget_action, then the windows are set; no other key is read.
parse_budgets(raw) ==
    BudgetConfig(WindowOf(raw, "hourly"), WindowOf(raw, "daily"),
                 WindowOf(raw, "monthly"),
                 Get(raw, "downgrade_steps", JNum(1)).v,
                 Get(raw, "over_budget_action", JStr("allow")).v)

\* BudgetConfig(): the dataclass defaults.
DefaultBudgetConfig == BudgetConfig(None, None, None, 1, "allow")

(***************************************************************************)
(* proxy.py: upstream headers                                              *)
(*                                                                         *)
(* Headers are a function from names to values; a value is a sequence of   *)
(* comma-separated parts, or a credential.                                 *)
(***************************************************************************)

STRIPPED_HEADERS == {"host", "content-length", "authorization", "x-api-key"}

\* key.lower(), for the header names of this model.
Lower(key) ==
    CASE key = "Authorization" -> "authorization"
      [] key = "X-Api-Key" -> "x-api-key"
      [] key = "Host" -> "host"
      [] key = "Content-Length" -> "content-length"
      [] OTHER -> key

Bearer(key) == [scheme |-> "Bearer", key |-> key]
ApiKey(key) == [scheme |-> "", key |-> key]

\* headers with headers[name] = value for every name of the function more.
SetHeaders(headers, more) ==
    [k \in DOMAIN headers \cup DOMAIN more |->
        IF k \in DOMAIN more THEN more[k] ELSE headers[k]]

\* The loop, were the names compared as they are written.
ForwardedHeadersExact(request_headers) ==
    [k \in {h \in DOMAIN request_headers : h \notin STRIPPED_HEADERS}
        |-> request_headers[k]]

\* The loop that both builders start with.
ForwardedHeaders(request_headers) ==
    [k \in {h \in DOMAIN request_headers : Lower(h) \notin STRIPPED_HEADERS}
        |-> request_headers[k]]

\* [b.strip() for b in existing_beta.split(",") if b.strip()]
NonEmptyParts(parts) == SelectSeq(parts, LAMBDA b : b # "")

\* beta_parts with the flag appended unless it is there.
AppendMissing(beta_parts, required) ==
    IF required \in Range(beta_parts) THEN beta_parts
    ELSE Append(beta_parts, required)

\* build_upstream_headers(request)
build_upstream_headers(env, request_headers) ==
    LET headers == ForwardedHeaders(request_headers)
        existing_beta == IF "anthropic-beta" \in DOMAIN headers
                         THEN headers["anthropic-beta"] ELSE <<>>
        beta_parts == AppendMissing(
                          AppendMissing(NonEmptyParts(existing_beta),
                                        "oauth-2025-04-20"),
                          "claude-code-20250219")
    IN  IF env.LLM_API_PROVIDER = "openai"
        THEN SetHeaders(headers,
                 [authorization |-> Bearer(env.LLM_API_KEY)])
        ELSE IF env.IS_OAUTH_TOKEN
        THEN SetHeaders(headers,
                 "authorization" :> Bearer(env.LLM_API_KEY)
                 @@ "anthropic-version" :> <<"2023-06-01">>
                 @@ "anthropic-beta" :> beta_parts
                 @@ "user-agent" :> <<"claude-cli/2.1.2 (external, cli)">>
                 @@ "x-app" :> <<"cli">>)
        ELSE SetHeaders(headers,
                 "x-api-key" :> ApiKey(env.LLM_API_KEY)
                 @@ "anthropic-version" :> <<"2023-06-01">>)

\* build_provider_headers(provider, request)
build_provider_headers(provider, request_headers) ==
    LET headers == ForwardedHeaders(request_headers)
    IN  IF provider.type = "anthropic"
        THEN SetHeaders(headers,
                 "x-api-key" :> ApiKey(provider.api_key)
                 @@ "anthropic-version" :> <<"2023-06-01">>)
        ELSE SetHeaders(headers,
                 [authorization |-> Bearer(provider.api_key)])

(***************************************************************************)
(* proxy.py: the request handler                                           *)
(*                                                                         *)
(* A path is its sequence of segments.  A body is empty, bytes that are    *)
(* not JSON, or a JSON object (given by its value: json.dumps of the       *)
(* parsed body is the same value).                                         *)
(***************************************************************************)

BodyEmpty == [kind |-> "empty"]
BodyGarbage == [kind |-> "garbage"]
BodyJson(value) == [kind |-> "json", value |-> value]

Request(method, path, headers, body) ==
    [method |-> method, path |-> path, headers |-> headers, body |-> body]

TRACKABLE_PATHS == {<<"v1", "messages">>, <<"v1", "chat", "completions">>}

IsSuffix(p, s) ==
    /\ Len(p) <= Len(s)
    /\ \A i \in 1..Len(p) : s[Len(s) - Len(p) + i] = p[i]

\* "/v1/messages" in f"/{path}"
detect_client_format(path) ==
    IF \E i \in 1..(Len(path) - 1) :
           path[i] = "v1" /\ path[i + 1] = "messages"
    THEN "anthropic" ELSE "openai"

\* Lines 665-669: the parsed body, or None.
ParseBody(request) ==
    IF request.method = "POST" /\ request.body.kind = "json"
    THEN request.body.value ELSE None

\* Lines 704-706
IsTrackable(request) ==
    /\ request.method = "POST"
    /\ \E p \in TRACKABLE_PATHS : IsSuffix(p, request.path)

\* What the handler returns without contacting an upstream.
ErrorResponse(status_code, error) ==
    [kind |-> "response", status_code |-> status_code, error |-> error]

\* A call of _forward_via_httpx or _handle_cross_provider_route.
Forward(via, base_url, path, headers, body, is_trackable, request_model, routing_headers) ==
    [kind |-> "forward", via |-> via, base_url |-> base_url, path |-> path,
     headers |-> headers, body |-> body, is_trackable |-> is_trackable,
     request_model |-> request_model, routing_headers |-> routing_headers]

\* Lines 672-701: the guard stage.  blocked is None or the 400 response;
\* body_dict and body are what the rest of the handler works with.
guard_stage(env, request, reply) ==
    LET body_dict == ParseBody(request)
        messages == extract_messages(body_dict, env.LLM_API_PROVIDER)
        unicode_block == check_hidden_unicode(messages, env.GUARD_ENABLED,
                                              env.GUARD_STRIP_HIDDEN_UNICODE)
        had_hidden == \E i \in 1..Len(messages) :
                          detect_hidden_unicode(messages[i]) # <<>>
        stripped == env.GUARD_ENABLED /\ env.GUARD_STRIP_HIDDEN_UNICODE
                    /\ had_hidden
        new_dict == IF stripped THEN strip_hidden_unicode_from_body(body_dict)
                    ELSE body_dict
        block_info == check_guard(env.GUARD_ENABLED, env.GUARD_URL,
                                  env.GUARD_THRESHOLD, reply)
        passed == [blocked |-> None, body_dict |-> body_dict,
                   body |-> request.body, guard_called |-> FALSE]
    IN  IF body_dict = None THEN passed
        ELSE IF messages = <<>> THEN passed
        ELSE IF unicode_block # None
             THEN [passed EXCEPT !.blocked = ErrorResponse(400, "blocked")]
        ELSE [blocked |-> IF block_info # None
                          THEN ErrorResponse(400, "blocked") ELSE None,
              body_dict |-> new_dict,
              body |-> IF stripped THEN BodyJson(new_dict) ELSE request.body,
              guard_called |-> env.GUARD_ENABLED /\ env.GUARD_URL # ""]

\* Lines 676-683: the code points that the content of the 400 lists for a
\* hidden-Unicode block, None when the request is not blocked for them.
block_reason(env, request) ==
    LET body_dict == ParseBody(request)
        messages == extract_messages(body_dict, env.LLM_API_PROVIDER)
        unicode_block == check_hidden_unicode(messages, env.GUARD_ENABLED,
                                              env.GUARD_STRIP_HIDDEN_UNICODE)
    IN  IF body_dict = None THEN None
        ELSE IF messages = <<>> THEN None
        ELSE IF unicode_block = None THEN None
        ELSE [codepoints |-> unicode_block.reason]

\* Lines 673-694: what check_guard POSTs to the guard service, None when
\* the service is not asked.  messages is the list that extract_messages
\* returned at line 673; the strip of line 689 puts new strings into
\* body_dict and leaves the strings of that list as they were.
guard_posted(env, request) ==
    LET body_dict == ParseBody(request)
        messages == extract_messages(body_dict, env.LLM_API_PROVIDER)
        unicode_block == check_hidden_unicode(messages, env.GUARD_ENABLED,
                                              env.GUARD_STRIP_HIDDEN_UNICODE)
    IN  IF body_dict = None THEN None
        ELSE IF messages = <<>> THEN None
        ELSE IF unicode_block # None THEN None
        ELSE IF ~env.GUARD_ENABLED \/ env.GUARD_URL = "" THEN None
        ELSE [messages |-> messages]

\* Lines 719-741: tier selection.  The result is [outcome |-> "tier", tier],
\* [outcome |-> "reject"] for the 429, or [outcome |-> "raise"] when a
\* statement raises (AttributeError, IndexError).
select_tier(g, es, snapshot, classified, t) ==
    LET max_push_tier == GetAttr(g.budget_config, "max_push_tier")
        order == g.router_config.tier_order
    IN  IF g.quota_tracker # None
           /\ should_max_push(snapshot, g.push_within_minutes, t)
        THEN IF ~max_push_tier.ok THEN [outcome |-> "raise"]
             ELSE IF max_push_tier.val # ""
                  THEN [outcome |-> "tier", tier |-> max_push_tier.val]
             ELSE IF order = <<>> THEN [outcome |-> "raise"]
             ELSE [outcome |-> "tier", tier |-> order[1]]
        ELSE IF g.budget_manager # None
        THEN IF is_over_budget(g.budget_config, es, t)
             THEN IF g.budget_config.over_budget_action = "reject"
                  THEN [outcome |-> "reject"]
                  ELSE [outcome |-> "tier", tier |-> lowest_tier(g.router_config)]
             ELSE IF should_downgrade(g.budget_config, es, t)
             THEN [outcome |-> "tier",
                   tier |-> downgrade_tier(g.router_config, classified,
                                           g.budget_config.downgrade_steps)]
             ELSE [outcome |-> "tier", tier |-> classified]
        ELSE [outcome |-> "tier", tier |-> classified]

\* Lines 775-781: routed_body with the tier's extra_params applied.
ApplyExtraParams(routed_body, extra_params) ==
    IF extra_params = None \/ DOMAIN extra_params = {} THEN routed_body
    ELSE JObj([k \in DOMAIN routed_body.v \cup DOMAIN extra_params |->
                 IF k \notin DOMAIN extra_params THEN routed_body.v[k]
                 ELSE IF isinstance_dict(extra_params[k])
                         /\ isinstance_dict(Get(routed_body, k, None))
                      THEN JObj([j \in DOMAIN routed_body.v[k].v
                                       \cup DOMAIN extra_params[k].v |->
                                    IF j \in DOMAIN extra_params[k].v
                                    THEN extra_params[k].v[j]
                                    ELSE routed_body.v[k].v[j]])
                 ELSE extra_params[k]])

\* routed_body = body_dict.copy(); routed_body["model"] = target_model
WithModel(body_dict, target_model) ==
    JObj([k \in DOMAIN body_dict.v \cup {"model"} |->
             IF k = "model" THEN JStr(target_model) ELSE body_dict.v[k]])

\* Lines 751-812: the call that serves a resolved target.
route(request, body_dict, tier, target) ==
    LET provider == target.provider
        routing_headers ==
            [tier |-> tier, model |-> target.model, provider |-> provider.name]
    IN  IF detect_client_format(request.path) = provider.type
        THEN Forward("same_format", provider.base_url,
                     IF provider.type = "anthropic" THEN <<"v1", "messages">>
                     ELSE <<"v1", "chat", "completions">>,
                     build_provider_headers(provider, request.headers),
                     BodyJson(ApplyExtraParams(
                                  WithModel(body_dict, target.model),
                                  target.extra_params)),
                     TRUE, target.model, routing_headers)
        ELSE Forward("cross_format", provider.base_url, <<>>, <<>>,
                     BodyJson(body_dict), TRUE, target.model, routing_headers)

\* Lines 712-816: the smart routing branch.  result is the response or the
\* forward it returns, or None when it falls through to legacy forwarding;
\* resolved is the tier resolve_target was called with, or None.
\* Lines 728-816, once the tier is selected: the 429 of an exceeded budget,
\* the routed call, or nothing (legacy forwarding follows) when selection
\* raised or no target resolves.
smart_routed(request, body_dict, config, selected) ==
    LET target == resolve_target(config, selected.tier, {})
    IN  IF selected.outcome = "raise"
        THEN [result |-> None, resolved |-> None]
        ELSE IF selected.outcome = "reject"
        THEN [result |-> ErrorResponse(429, "budget_exceeded"),
              resolved |-> None]
        ELSE IF target = None
        THEN [result |-> None, resolved |-> [tier |-> selected.tier]]
        ELSE [result |-> route(request, body_dict, selected.tier, target),
              resolved |-> [tier |-> selected.tier]]

smart_route(g, es, snapshot, request, body_dict, ml, t) ==
    smart_routed(request, body_dict, g.router_config,
                 select_tier(g, es, snapshot,
                             classify_request(g.classifier, body_dict,
                                              g.router_config.default_tier,
                                              ml),
                             t))

\* Lines 693-829: the 400 of a blocked request, the answer of the
\* smart-routing branch, or the legacy call.
proxy_answer(guarded, smart, legacy) ==
    IF guarded.blocked # None
    THEN [result |-> guarded.blocked, resolved |-> None,
          guard_called |-> guarded.guard_called]
    ELSE [result |-> IF smart.result # None THEN smart.result ELSE legacy,
          resolved |-> smart.resolved,
          guard_called |-> guarded.guard_called]

\* Lines 703-829 for a request whose guard hooks gave guarded.
proxy_guarded(g, env, es, snapshot, request, guarded, ml, t) ==
    LET body_dict == guarded.body_dict
        is_trackable == IsTrackable(request)
        request_model ==
            IF body_dict # None
            THEN Get(body_dict, "model", JStr(<<"u", "n", "k", "n", "o", "w", "n">>)).v
            ELSE <<"u", "n", "k", "n", "o", "w", "n">>
    IN  proxy_answer(
            guarded,
            IF g.smart_router_ready /\ is_trackable /\ body_dict # None
            THEN smart_route(g, es, snapshot, request, body_dict, ml, t)
            ELSE [result |-> None, resolved |-> None],
            Forward("legacy", env.LLM_API_BASE, request.path,
                    build_upstream_headers(env, request.headers),
                    guarded.body, is_trackable, request_model, None))

\* proxy(request, path): everything up to the response it returns itself or
\* the upstream call it makes.
proxy(g, env, es, snapshot, request, reply, ml, t) ==
    proxy_guarded(g, env, es, snapshot, request,
                  guard_stage(env, request, reply), ml, t)

(***************************************************************************)
(* proxy.py: _forward_via_httpx after the upstream has answered            *)
(***************************************************************************)

\* An upstream response: status, headers, and a body that is a JSON object,
\* bytes that are not JSON, or (content-type text/event-stream) a stream.
UpstreamResponse(status_code, headers, body) ==
    [status_code |-> status_code, headers |-> headers, body |-> body]

BodyStream(stream) == [kind |-> "sse", stream |-> stream]

\* "text/event-stream" in content_type
IsStreaming(response) == response.body.kind = "sse"

\* The response relayed to the client: status, routing headers, body.
Relayed(status_code, routing_headers, body) ==
    [kind |-> "response", status_code |-> status_code,
     routing_headers |-> routing_headers, body |-> body]

\* Lines 514-529: the upstream could not be reached.
UpstreamFailed == Relayed(502, None, BodyGarbage)

\* Lines 580-587: the usage of a buffered 200 response, None when nothing
\* is to be recorded.  usage.get("input_tokens", usage.get("prompt_tokens", 0))
BufferedUsage(response, request_model) ==
    LET resp_json == response.body.value
        usage_data == Get(resp_json, "usage", JObj(<<>>))
    IN  IF response.status_code # 200 \/ response.body.kind # "json" THEN None
        ELSE IF ~Truthy(usage_data) THEN None
        ELSE [model |-> Get(resp_json, "model", JStr(request_model)).v,
              input_tokens |->
                  Get(usage_data, "input_tokens",
                      Get(usage_data, "prompt_tokens", JNum(0))).v,
              output_tokens |->
                  Get(usage_data, "output_tokens",
                      Get(usage_data, "completion_tokens", JNum(0))).v]

\* Lines 560-563: the usage the streaming finalizer records, None when
\* has_usage() is false.  model = extractor.model or request_model
StreamedUsage(ex, request_model) ==
    IF ~has_usage(ex) THEN None
    ELSE [model |-> IF NoModel(ex) THEN request_model ELSE ex.model.v,
          input_tokens |-> ex.input_tokens,
          output_tokens |-> ex.output_tokens]


\* Lines 573-599: what _forward_via_httpx does with a trackable response
\* that is not an event stream, once its body is read.  json.loads raises
\* JSONDecodeError on bytes that are not JSON (caught, line 588); .get on a
\* value that is not a dict raises AttributeError, and get_cost raises on a
\* model that is not a string or on token counts that are not numbers:
\* these pass the inner except, and the outer one (596-599) re-raises.
\* usage is what is handed to record_cost, None when it is not called.
forward_buffered(response, request_model, manager) ==
    LET body == response.body
        resp_json == body.value
        usage_data == Get(resp_json, "usage", JObj(<<>>))
        model == Get(resp_json, "model", JStr(request_model))
        input_tk == Get(usage_data, "input_tokens",
                        Get(usage_data, "prompt_tokens", JNum(0)))
        output_tk == Get(usage_data, "output_tokens",
                         Get(usage_data, "completion_tokens", JNum(0)))
        relayed == [raised |-> FALSE, usage |-> None,
                    result |-> Relayed(response.status_code, None, body)]
        raises == [raised |-> TRUE, usage |-> None, result |-> None]
    IN  IF response.status_code # 200 \/ body.kind # "json" THEN relayed
        ELSE IF ~isinstance_dict(resp_json) THEN raises
        ELSE IF ~(Truthy(usage_data) /\ manager) THEN relayed
        ELSE IF ~isinstance_dict(usage_data) THEN raises
        ELSE IF ~isinstance_str(model) \/ input_tk.t # "int"
                \/ output_tk.t # "int"
        THEN raises
        ELSE [relayed EXCEPT !.usage = [model |-> model.v,
                                        input_tokens |-> input_tk.v,
                                        output_tokens |-> output_tk.v]]


(***************************************************************************)
(* litellm_bridge.py: the request translation                              *)
(*                                                                         *)
(* A text is a sequence of characters; a role, a block type, an id and a   *)
(* name are strings.  An OpenAI message is a record with the members the   *)
(* code gives it.                                                          *)
(***************************************************************************)

\* " ".join(texts), for texts of characters.
RECURSIVE JoinBlank(_)
JoinBlank(texts) ==
    IF texts = <<>> THEN <<>>
    ELSE IF Len(texts) = 1 THEN texts[1]
    ELSE texts[1] \o <<" ">> \o JoinBlank(Tail(texts))

\* The members of an object in the order the dict holds them.  The objects
\* serialized here have at most two members; their order is the one fixed
\* by this enumeration.
RECURSIVE MemberOrder(_)
MemberOrder(keys) ==
    IF keys = {} THEN <<>>
    ELSE LET k == CHOOSE x \in keys : TRUE
         IN  <<k>> \o MemberOrder(keys \ {k})

\* json.dumps(val): the text of the value, with double quotes, ", " between
\* items and ": " after a key.
RECURSIVE json_dumps(_)
json_dumps(val) ==
    LET RECURSIVE Items(_, _)
        Items(parts, i) ==
            IF i > Len(parts) THEN <<>>
            ELSE (IF i > 1 THEN <<",", " ">> ELSE <<>>)
                 \o parts[i] \o Items(parts, i + 1)
    IN  CASE val.t = "str" -> <<"\"">> \o val.v \o <<"\"">>
          [] val.t = "int" -> <<ToString(val.v)>>
          [] val.t = "bool" -> IF val.v THEN <<"true">> ELSE <<"false">>
          [] val.t = "list" ->
               <<"[">>
               \o Items([i \in 1..Len(val.v) |-> json_dumps(val.v[i])], 1)
               \o <<"]">>
          [] val.t = "dict" ->
               LET keys == MemberOrder(DOMAIN val.v)
               IN  <<"{">>
                   \o Items([i \in 1..Len(keys) |->
                                <<"\"", keys[i], "\"", ":", " ">>
                                \o json_dumps(val.v[keys[i]])], 1)
                   \o <<"}">>

\* str(val): a string is itself; any other value is written as Python
\* writes it, with single quotes and True/False.
RECURSIVE py_repr(_)
py_repr(val) ==
    LET RECURSIVE Items(_, _)
        Items(parts, i) ==
            IF i > Len(parts) THEN <<>>
            ELSE (IF i > 1 THEN <<",", " ">> ELSE <<>>)
                 \o parts[i] \o Items(parts, i + 1)
    IN  CASE val.t = "str" -> <<"'">> \o val.v \o <<"'">>
          [] val.t = "int" -> <<ToString(val.v)>>
          [] val.t = "bool" -> IF val.v THEN <<"True">> ELSE <<"False">>
          [] val.t = "list" ->
               <<"[">>
               \o Items([i \in 1..Len(val.v) |-> py_repr(val.v[i])], 1)
               \o <<"]">>
          [] val.t = "dict" ->
               LET keys == MemberOrder(DOMAIN val.v)
               IN  <<"{">>
                   \o Items([i \in 1..Len(keys) |->
                                <<"'", keys[i], "'", ":", " ">>
                                \o py_repr(val.v[keys[i]])], 1)
                   \o <<"}">>

py_str(val) == IF val.t = "str" THEN val.v ELSE py_repr(val)

BlockType(block) ==
    IF isinstance_dict(block) /\ In("type", block) THEN block.v["type"].v
    ELSE ""

\* Lines 80-92: the message a tool_use block is passed through as.
ToolUseMessage(role, block) ==
    [role |-> role, content |-> None,
     tool_calls |->
         << [id |-> Get(block, "id", JStr("")).v, type |-> "function",
             function |->
                 [name |-> Get(block, "name", JStr("")).v,
                  arguments |->
                      json_dumps(Get(block, "input", JObj(<<>>)))]] >>]

\* Lines 96-102: the message a tool_result block becomes.
ToolResultMessage(block) ==
    [role |-> "tool",
     tool_call_id |-> Get(block, "tool_use_id", JStr("")).v,
     content |-> py_str(Get(block, "content", JStr(<<>>)))]

\* Lines 74-105 of a loop that appends the text as soon as it meets a text
\* block, tool messages where they stand.
RECURSIVE convert_blocks_in_place(_, _)
convert_blocks_in_place(role, blocks) ==
    IF blocks = <<>> THEN <<>>
    ELSE (CASE BlockType(blocks[1]) = "text" ->
                 <<[role |-> role,
                    content |-> Get(blocks[1], "text", JStr(<<>>)).v]>>
            [] BlockType(blocks[1]) = "tool_use" ->
                 <<ToolUseMessage(role, blocks[1])>>
            [] BlockType(blocks[1]) = "tool_result" ->
                 <<ToolResultMessage(blocks[1])>>
            [] OTHER -> <<>>)
         \o convert_blocks_in_place(role, Tail(blocks))

\* Lines 74-105: the messages of one list of content blocks.  Tool messages
\* are appended while the loop runs, the text parts after it.
convert_blocks(role, blocks) ==
    LET tools == SelectSeq(blocks,
                     LAMBDA b : BlockType(b) \in {"tool_use", "tool_result"})
        texts == SelectSeq(blocks, LAMBDA b : BlockType(b) = "text")
        text_parts == [i \in 1..Len(texts) |->
                          Get(texts[i], "text", JStr(<<>>)).v]
    IN  [i \in 1..Len(tools) |->
            IF BlockType(tools[i]) = "tool_use"
            THEN ToolUseMessage(role, tools[i])
            ELSE ToolResultMessage(tools[i])]
        \o (IF text_parts # <<>>
            THEN <<[role |-> role, content |-> JoinBlank(text_parts)]>>
            ELSE <<>>)

\* Lines 56-66: the system message, if any.
system_messages(body) ==
    LET system == Get(body, "system", None)
    IN  IF isinstance_str(system) /\ system.v # <<>>
        THEN <<[role |-> "system", content |-> system.v]>>
        ELSE IF isinstance_list(system)
        THEN LET texts == SelectSeq(system.v, LAMBDA b : BlockType(b) = "text")
                 system_text ==
                     JoinBlank([i \in 1..Len(texts) |->
                                   Get(texts[i], "text", JStr(<<>>)).v])
             IN  IF system_text # <<>>
                 THEN <<[role |-> "system", content |-> system_text]>>
                 ELSE <<>>
        ELSE <<>>

\* Lines 69-107: the messages one message of the body becomes.
convert_message(msg) ==
    LET role == Get(msg, "role", JStr("user")).v
        content == Get(msg, "content", JStr(<<>>))
    IN  IF content.t = "str" THEN <<[role |-> role, content |-> content.v]>>
        ELSE IF content.t = "list" THEN convert_blocks(role, content.v)
        ELSE <<[role |-> role, content |-> py_str(content)]>>

RECURSIVE ConvertAll(_)
ConvertAll(msgs) ==
    IF msgs = <<>> THEN <<>>
    ELSE convert_message(msgs[1]) \o ConvertAll(Tail(msgs))

\* _anthropic_to_openai_messages(body), for a body whose messages are dicts.
anthropic_to_openai_messages(body) ==
    system_messages(body) \o ConvertAll(Get(body, "messages", JArr(<<>>)).v)

(***************************************************************************)
(* Bounds of the exploration and the inputs the environment supplies       *)
(***************************************************************************)

MaxTicks == 3       \* clock advances explored
MaxRecords == 2     \* record_cost calls explored

\* Model names used as inputs: an exact key, a dated name that a key
\* prefixes, a family name that prefixes keys, and an unknown name.
M_gpt4o == <<"g", "p", "t", "-", "4", "o">>
M_gpt4o_dated == <<"g", "p", "t", "-", "4", "o", "-", "2", "0", "2", "4">>
M_claude == <<"c", "l", "a", "u", "d", "e">>
M_unknown == <<"u", "n", "k", "n", "o", "w", "n">>

Usage(model, input_tokens, output_tokens) ==
    [model |-> model, input_tokens |-> input_tokens,
     output_tokens |-> output_tokens]

Usages ==
    { Usage(M_gpt4o, 1, 0), Usage(M_gpt4o_dated, 1, 1),
      Usage(M_claude, 0, 1), Usage(M_unknown, 1, 1) }

TickDeltas == {HOUR, DAY, MONTH}

\* Budgets explored, each window with limit_usd >= 0 and
\* 0 <= warn_at_pct <= downgrade_at_pct <= 100: every window alone with the
\* default percentages, three different windows together, the percentages
\* 0 and 100, a limit of zero, and no window at all.
BudgetConfigs ==
    { BudgetConfig(BudgetWindow(20000, 80, 90), None, None, 1, "allow"),
      BudgetConfig(None, BudgetWindow(20000, 80, 90), None, 1, "allow"),
      BudgetConfig(None, None, BudgetWindow(20000, 80, 90), 1, "allow"),
      BudgetConfig(BudgetWindow(20000, 0, 100), BudgetWindow(20000, 90, 90),
                   BudgetWindow(20000, 100, 100), 1, "allow"),
      BudgetConfig(BudgetWindow(0, 80, 90), None, None, 1, "allow"),
      BudgetConfig(BudgetWindow(20000, 0, 0), None,
                   BudgetWindow(0, 100, 100), 1, "allow"),
      BudgetConfig(None, None, None, 1, "allow") }

PushWindows == {5, 15}
QuotaTickDeltas == {1, 600}
ResetOffsets == {0 - 300, 0, 1, 300, 301, 900, 901}

Absent == [absent |-> TRUE]

\* The mapping with the given values, a header being left out when Absent.
MakeHeaders(tokens_limit, tokens_remaining, tokens_reset, requests_limit,
            requests_remaining, requests_reset) ==
    LET all == [n \in {H_TOKENS_LIMIT, H_TOKENS_REMAINING, H_TOKENS_RESET,
                       H_REQUESTS_LIMIT, H_REQUESTS_REMAINING,
                       H_REQUESTS_RESET} |->
                  CASE n = H_TOKENS_LIMIT -> tokens_limit
                    [] n = H_TOKENS_REMAINING -> tokens_remaining
                    [] n = H_TOKENS_RESET -> tokens_reset
                    [] n = H_REQUESTS_LIMIT -> requests_limit
                    [] n = H_REQUESTS_REMAINING -> requests_remaining
                    [] n = H_REQUESTS_RESET -> requests_reset]
    IN  [n \in {m \in DOMAIN all : all[m] # Absent} |-> all[n]]

\* Response headers an upstream may send at time t.
ResetChoices(t) ==
    {Absent, EmptyString, Garbage} \cup {Rfc3339(t + o) : o \in ResetOffsets}
RemainingChoices == {Absent, Decimal(0), Decimal(1000), Garbage}

\* Headers that are not Anthropic's rate-limit headers: OpenAI's, and one
\* that has nothing to do with quota.
OtherHeaders ==
    [n \in {"x-ratelimit-remaining-tokens", "x-ratelimit-reset-tokens",
            "content-type"} |->
        CASE n = "x-ratelimit-remaining-tokens" -> Decimal(77)
          [] n = "x-ratelimit-reset-tokens" -> Garbage
          [] n = "content-type" -> Garbage]

\* The mapping h with the other headers added.
WithOtherHeaders(h) ==
    [n \in DOMAIN h \cup DOMAIN OtherHeaders |->
        IF n \in DOMAIN h THEN h[n] ELSE OtherHeaders[n]]

\* Response headers for the calls of update whose effect is recorded: with
\* and without tokens-reset, with malformed timestamps and integers, with
\* fields missing, and with headers of other kinds.
UpdateHeaders(t) ==
    LET reset == Rfc3339(t + 300)
        later == Rfc3339(t + 600)
    IN  { MakeHeaders(Absent, Absent, Absent, Absent, Absent, Absent),
          OtherHeaders,
          MakeHeaders(Decimal(100000), Decimal(80000), reset,
                      Decimal(50), Decimal(40), later),
          MakeHeaders(Absent, Absent, reset, Absent, Absent, Absent),
          WithOtherHeaders(MakeHeaders(Decimal(200000), Decimal(1000), reset,
                                       Absent, Absent, Absent)),
          MakeHeaders(Decimal(100000), Decimal(80000), Absent,
                      Decimal(50), Decimal(40), later),
          MakeHeaders(Decimal(100000), Decimal(80000), Garbage,
                      Decimal(50), Decimal(40), later),
          MakeHeaders(Decimal(100000), Decimal(80000), EmptyString,
                      Absent, Absent, Absent),
          MakeHeaders(Decimal(100000), Decimal(80000), reset,
                      Decimal(50), Decimal(40), Garbage),
          MakeHeaders(Absent, Absent, reset, Absent, Absent, EmptyString),
          MakeHeaders(Decimal(100000), Garbage, reset,
                      Absent, Absent, Absent),
          WithOtherHeaders(MakeHeaders(Absent, Absent, reset,
                                       Garbage, Decimal(40), Absent)) }

QuotaHeaders(t) ==
    { MakeHeaders(Absent, rem, reset, Absent, Absent, Absent) :
          rem \in RemainingChoices, reset \in ResetChoices(t) }
    \cup
    { MakeHeaders(Decimal(100000), rem, reset, Decimal(200), Decimal(100),
                  Rfc3339(t + 60)) :
          rem \in RemainingChoices, reset \in ResetChoices(t) }
    \cup
    { MakeHeaders(Decimal(100000), rem, reset, Decimal(200), Garbage,
                  Absent) :
          rem \in RemainingChoices, reset \in ResetChoices(t) }
    \cup
    { MakeHeaders(Absent, rem, reset, Absent, Absent, Garbage) :
          rem \in RemainingChoices, reset \in ResetChoices(t) }

MaxSteps == 3            \* largest step count passed to downgrade_tier
MaxDowngradeCalls == 2   \* successive downgrade_tier calls explored

TierNames == {"tier1", "tier2", "tier3", "tier4"}

\* Every tier_order a tiers mapping over TierNames can give: the sequences
\* of distinct tier names, the empty one included.
RECURSIVE Orders(_)
Orders(names) ==
    IF names = {} THEN {<<>>}
    ELSE {<<>>} \cup UNION { { <<n>> \o o : o \in Orders(names \ {n}) } :
                             n \in names }

DefaultClassifier == ClassifierConfig("mf", <<70, 30>>, TRUE)

\* A RouterConfig whose tiers have the given order and no models.
OrderOnlyConfig(order) ==
    RouterConfig(TRUE, <<>>, DefaultClassifier,
                 [n \in Range(order) |-> <<>>], order,
                 BudgetConfig(None, None, None, 1, "allow"), "tier1")

RECURSIVE SumSeq(_)
SumSeq(s) == IF s = <<>> THEN 0 ELSE s[1] + SumSeq(Tail(s))

MaxPieces == 4     \* pieces an upstream byte stream is made of

\* An event line's bytes, without its newline.
EventLine(payload) == DATA_PREFIX \o payload

\* What a stream is made of: usage events, an event that makes _extract
\* raise, the [DONE] line, a newline, and bytes of no interest.
Pieces ==
    {EventLine(<<"{", "S", "}">>), EventLine(<<"{", "E", "}">>),
     EventLine(<<"{", "O", "}">>), EventLine(<<"B">>), EventLine(DONE),
     <<NL>>, <<"x">>}

RECURSIVE StreamsOf(_)
StreamsOf(n) ==
    IF n = 0 THEN {<<>>}
    ELSE {<<>>} \cup {p \o s : p \in Pieces, s \in StreamsOf(n - 1)}

\* (input_tokens, output_tokens, model)
Usage3(ex) == <<ex.input_tokens, ex.output_tokens, ex.model>>

\* The whole stream fed as one chunk, then finalize() unless feed raised.
OneChunk(stream) ==
    LET r == feed(SSETokenExtractor, stream)
    IN  IF r.raised THEN r ELSE finalize(r.ex)

MaxTextLen == 3    \* longest text passed to strip_hidden_unicode
MaxStrips == 2     \* successive strip_hidden_unicode calls explored

\* The first and last code point of every hidden range, the code points
\* just outside them, and a letter.
CodePoints ==
    {65} \cup UNION { { HIDDEN_UNICODE_RANGES[r][1] - 1,
                        HIDDEN_UNICODE_RANGES[r][1],
                        HIDDEN_UNICODE_RANGES[r][2],
                        HIDDEN_UNICODE_RANGES[r][2] + 1 } :
                      r \in 1..Len(HIDDEN_UNICODE_RANGES) }

Texts == UNION { [1..n -> CodePoints] : n \in 0..MaxTextLen }

MaxRequests == 2   \* requests explored in one run of the proxy
MaxInFlight == 1   \* upstream exchanges open at the same time
MaxProxyTicks == 1 \* clock advances explored in one run of the proxy

\* "hi", and "hi" with a zero-width space inside.
TextHi == <<104, 105>>
TextHidden == <<104, 8203, 105>>

M_sonnet == <<"c", "l", "a", "u", "d", "e", "-", "s", "o", "n", "n", "e", "t", "-", "4", "-", "5", "-", "2", "0", "2", "5", "0", "9", "2", "9">>
M_opus == <<"c", "l", "a", "u", "d", "e", "-", "o", "p", "u", "s", "-", "4", "-", "6">>
M_mini == <<"g", "p", "t", "-", "4", "o", "-", "m", "i", "n", "i">>

Message(role, text) == JObj([role |-> JStr(role), content |-> JStr(text)])

\* A router configuration with three tiers and an hourly budget.
ThreeTierConfig(enabled, limit_usd, over_budget_action) ==
    RouterConfig(enabled,
        [anthropic |-> ProviderConfig("anthropic", "anthropic",
                                      "https://api.anthropic.com", "key-a"),
         openai |-> ProviderConfig("openai", "openai",
                                   "https://api.openai.com", "key-o")],
        ClassifierConfig("mf", <<70, 30>>, TRUE),
        [tier1 |-> <<TierModel("anthropic", M_opus, None)>>,
         tier2 |-> <<TierModel("anthropic", M_sonnet,
                               [max_tokens |-> JNum(1024)])>>,
         tier3 |-> <<TierModel("openai", M_mini, None)>>],
        <<"tier1", "tier2", "tier3">>,
        BudgetConfig(BudgetWindow(limit_usd, 80, 90), None, None, 1,
                     over_budget_action),
        "tier1")

\* One usage of 10 input and 20 output tokens on M_sonnet costs 330000;
\* it is over a limit of 300000 and at 91 per cent of 360000.
Environments ==
    { Environment(<<"sk-ant-api", "03">>, "anthropic", "", FALSE, TRUE, TRUE,
                  ThreeTierConfig(TRUE, 300000, "reject"), FALSE),
      Environment(<<"sk-ant-api", "03">>, "anthropic", "http://guard", TRUE,
                  TRUE, TRUE, ThreeTierConfig(TRUE, 360000, "allow"), TRUE),
      Environment(<<"sk-ant-oat", "01">>, "anthropic", "", TRUE, FALSE, TRUE,
                  None, FALSE),
      Environment(<<"sk-ant-api", "03">>, "anthropic", "", FALSE, TRUE, TRUE,
                  ThreeTierConfig(FALSE, 300000, "reject"), FALSE),
      Environment(<<"sk-o">>, "openai", "http://guard", TRUE, TRUE, FALSE,
                  None, FALSE) }

ClientHeaders ==
    "Authorization" :> Bearer(<<"client">>)
    @@ "content-type" :> <<"application/json">>
    @@ "anthropic-beta" :> <<"tools-2024-04-04">>

\* A short chat, a chat that asks for thinking, a streamed chat with a
\* hidden character, a longer chat, a body that is not JSON, and a GET.
Requests ==
    { Request("POST", <<"v1", "messages">>, ClientHeaders,
              BodyJson(JObj([model |-> JStr(M_sonnet),
                             messages |-> JArr(<<Message("user", TextHi)>>)]))),
      Request("POST", <<"v1", "messages">>, ClientHeaders,
              BodyJson(JObj([model |-> JStr(M_opus),
                             thinking |-> JObj([type |-> JStr("enabled")]),
                             messages |-> JArr(<<Message("user", TextHi),
                                                 Message("assistant", TextHi),
                                                 Message("user", TextHi),
                                                 Message("assistant", TextHi)>>)]))),
      Request("POST", <<"v1", "messages">>, ClientHeaders,
              BodyJson(JObj([model |-> JStr(M_sonnet),
                             stream |-> JBool(TRUE),
                             messages |-> JArr(<<Message("user", TextHidden)>>)]))),
      Request("POST", <<"v1", "chat", "completions">>, ClientHeaders,
              BodyJson(JObj([model |-> JStr(M_mini),
                             messages |-> JArr(<<Message("system", TextHi),
                                                 Message("user", TextHi),
                                                 Message("assistant", TextHi),
                                                 Message("user", TextHi)>>)]))),
      Request("POST", <<"v1", "messages">>, ClientHeaders, BodyGarbage),
      Request("GET", <<"v1", "models">>, ClientHeaders, BodyEmpty) }

GuardReplies == {GuardUnreachable, GuardReply(200, 90), GuardReply(200, 10)}
MlResults == {MlRaises, MlScore(90), MlScore(10)}

\* The bodies an upstream answers with: a JSON object with usage, one
\* without, and an event stream with usage.
UsageJson ==
    BodyJson(JObj([model |-> JStr(M_sonnet),
                   usage |-> JObj([input_tokens |-> JNum(10),
                                   output_tokens |-> JNum(20)])]))
ErrorJson == BodyJson(JObj([type |-> JStr("error")]))
UsageStream ==
    BodyStream(EventLine(<<"{", "S", "}">>) \o <<NL>>
               \o EventLine(<<"{", "E", "}">>) \o <<NL>>)

\* Upstream responses at time t: without rate-limit headers, or with a
\* token quota of 1000 left that resets in five minutes.
ResetSoon(t) ==
    MakeHeaders(Decimal(100000), Decimal(1000), Rfc3339(t + 300),
                Absent, Absent, Absent)
UpstreamResponses(t) ==
    { UpstreamResponse(200, <<>>, UsageJson),
      UpstreamResponse(200, ResetSoon(t), UsageJson),
      UpstreamResponse(200, ResetSoon(t), UsageStream),
      UpstreamResponse(500, <<>>, ErrorJson),
      UpstreamResponse(429, ResetSoon(t), ErrorJson) }

ProxyTickDeltas == {60, HOUR}
StreamChunkSizes == {5, 7}


(***************************************************************************)
(* litellm_bridge.py: the streaming bridge                                 *)
(*                                                                         *)
(* An upstream chunk is the dict chunk.model_dump() gives, as a JSON       *)
(* value.  What the bridge yields is a sequence of SSE frames; a frame     *)
(* f"event: {name}\ndata: {json.dumps(payload)}\n\n" is the record         *)
(* [event |-> name, data |-> payload], and a frame without an event line   *)
(* has the empty name.                                                     *)
(***************************************************************************)

sse_frame(name, payload) == [event |-> name, data |-> payload]

\* Lines 253-264.
message_start(model) ==
    sse_frame("message_start",
        JObj([type |-> JStr(<<"message_start">>),
              message |-> JObj([id |-> JStr(<<"msg_router">>),
                                type |-> JStr(<<"message">>),
                                role |-> JStr(<<"assistant">>),
                                model |-> JStr(model),
                                content |-> JArr(<<>>),
                                usage |-> JObj([input_tokens |-> JNum(0),
                                                output_tokens |-> JNum(0)])])]))

\* Line 267.
content_block_start ==
    sse_frame("content_block_start",
        JObj([type |-> JStr(<<"content_block_start">>), index |-> JNum(0),
              content_block |-> JObj([type |-> JStr(<<"text">>),
                                      text |-> JStr(<<>>)])]))

\* Lines 277-282.
delta_event(content) ==
    sse_frame("content_block_delta",
        JObj([type |-> JStr(<<"content_block_delta">>), index |-> JNum(0),
              delta |-> JObj([type |-> JStr(<<"text_delta">>),
                              text |-> content])]))

\* Line 290.
content_block_stop ==
    sse_frame("content_block_stop",
        JObj([type |-> JStr(<<"content_block_stop">>), index |-> JNum(0)]))

\* message_delta, were the usage of the upstream stream dropped.
message_delta_zero(total_output_tokens) ==
    sse_frame("message_delta",
        JObj([type |-> JStr(<<"message_delta">>),
              delta |-> JObj([stop_reason |-> JStr(<<"end_turn">>)]),
              usage |-> JObj([output_tokens |-> JNum(0)])]))

\* Lines 293-298.
message_delta(total_output_tokens) ==
    sse_frame("message_delta",
        JObj([type |-> JStr(<<"message_delta">>),
              delta |-> JObj([stop_reason |-> JStr(<<"end_turn">>)]),
              usage |-> JObj([output_tokens |-> total_output_tokens])]))

\* Line 301.
message_stop ==
    sse_frame("message_stop", JObj([type |-> JStr(<<"message_stop">>)]))

\* Lines 182-189: the frame that reports an exception, in the client's
\* format.
error_event(client_format) ==
    IF client_format = "anthropic"
    THEN sse_frame("error",
             JObj([type |-> JStr(<<"error">>),
                   error |-> JObj([type |-> JStr(<<"api_error">>),
                                   message |-> JStr(<<"e">>)])]))
    ELSE sse_frame("", JObj([error |-> JStr(<<"e">>)]))

\* Lines 273-282, for the choices from the i-th on: one text_delta for every
\* choice whose delta.content is truthy, in the order of the choices.
RECURSIVE choice_deltas(_, _)
choice_deltas(choices, i) ==
    IF i > Len(choices) THEN <<>>
    ELSE LET delta == Get(choices[i], "delta", JObj(<<>>))
             content == Get(delta, "content", None)
         IN  (IF Truthy(content) THEN <<delta_event(content)>> ELSE <<>>)
                 \o choice_deltas(choices, i + 1)

\* Lines 271-282: the frames one upstream chunk gives.
chunk_deltas(chunk) == choice_deltas(Get(chunk, "choices", JArr(<<>>)).v, 1)

\* Lines 285-287: total_output_tokens after the chunk.
chunk_usage(total_output_tokens, chunk) ==
    LET usage == Get(chunk, "usage", None)
    IN  IF Truthy(usage) THEN Get(usage, "completion_tokens", JNum(0))
        ELSE total_output_tokens

\* Lines 174-176: a chunk passed through to an OpenAI client.
passthrough_frame(chunk) == sse_frame("", chunk)

\* Line 177.
done_frame == sse_frame("", DONE)

\* A stream with an event line whose JSON is an array, between two usage
\* events.
MalformedStream ==
    BodyStream(EventLine(<<"{", "S", "}">>) \o <<NL>>
               \o EventLine(<<"B">>) \o <<NL>>
               \o EventLine(<<"{", "E", "}">>) \o <<NL>>)

\* What the upstream can answer one request with.
RequestResponses(t) ==
    UpstreamResponses(t) \cup {UpstreamResponse(200, <<>>, MalformedStream)}

\* Sizes of the chunks aiter_bytes() delivers.
RequestChunkSizes == {2, 7}

MaxChunks == 3     \* chunks an upstream completion stream delivers

\* A choice of an upstream chunk whose delta carries the given members.
Choice(index, delta) == JObj([index |-> JNum(index), delta |-> JObj(delta)])

Chunk(choices, usage) ==
    IF usage = None THEN JObj([choices |-> JArr(choices)])
    ELSE JObj([choices |-> JArr(choices), usage |-> usage])

\* Chunks with text, with empty text, with a delta that has no content, with
\* two choices, and the closing chunks that carry the usage.
Chunks ==
    {Chunk(<<Choice(0, [content |-> JStr(<<"a">>)])>>, None),
     Chunk(<<Choice(0, [content |-> JStr(<<"b">>)])>>, None),
     Chunk(<<Choice(0, [content |-> JStr(<<>>)])>>, None),
     Chunk(<<Choice(0, [role |-> JStr(<<"assistant">>)])>>, None),
     Chunk(<<Choice(0, [content |-> JStr(<<"a">>)]),
             Choice(1, [content |-> JStr(<<"c">>)])>>, None),
     Chunk(<<>>, JObj([prompt_tokens |-> JNum(3),
                       completion_tokens |-> JNum(7)])),
     Chunk(<<>>, JObj([prompt_tokens |-> JNum(3)]))}

RECURSIVE ChunkStreams(_)
ChunkStreams(n) ==
    IF n = 0 THEN {<<>>}
    ELSE {<<>>} \cup {<<c>> \o s : c \in Chunks, s \in ChunkStreams(n - 1)}

\* Where the upstream call fails: nowhere, in acompletion itself, or while
\* the stream is read, after the chunks it has delivered.
UpstreamFailures == {"never", "acompletion", "stream"}

(***************************************************************************)
(* The state, by component                                                 *)
(***************************************************************************)

clockVars == <<now, ticks>>
budgetVars == <<budget_config, entries, recorded, returned>>
quotaVars == <<latest, push_within_minutes>>
tierVars == <<router_config, dg_orig, dg_steps, dg_tier>>
sseVars == <<extractor, sse_stream, sse_pos, sse_phase, sse_cut>>
uniVars == <<uni_orig, uni_text, uni_strips>>
downgradeVars == <<dg_orig, dg_steps, dg_tier>>
proxyVars ==
    <<environ, phase, budget_manager, quota_tracker, smart_router_ready,
      classifier_globals, inflight, handled, delivered, last, seen_quota>>
bridgeVars ==
    <<bridge_format, bridge_stream, bridge_raises, bridge_pos, bridge_tokens,
      bridge_out, bridge_pc>>
requestVars ==
    <<rq_request, rq_reply, rq_pc, rq_guarded, rq_fwd, rq_response, rq_client,
      rq_upstream, rq_extractor, rq_rest, rq_result, rq_stages>>
parseVars == <<parse_raw, parse_result>>
classifyVars ==
    <<classify_globals, classify_body, classify_default, classify_ml,
      classify_outcome>>
guardVars == <<gs_env, gs_request, gs_out, gs_result>>
headerVars == <<hd_headers, hd_target, hd_out>>
translateVars == <<tr_body, tr_messages>>
lockVars == <<lk_running, lk_pc, lk_holder, lk_entries, lk_stamp, lk_seen>>
resolveVars == <<rs_config, rs_tier, rs_exclude, rs_target>>
bufferedVars == <<bf_response, bf_model, bf_manager, bf_out>>
extraVars ==
    <<parseVars, classifyVars, guardVars, headerVars, translateVars, lockVars,
      resolveVars, bufferedVars>>
auxVars == <<bridgeVars, requestVars, quota_call, extraVars>>
vars ==
    <<clockVars, budgetVars, quotaVars, tierVars, sseVars, uniVars, proxyVars,
      auxVars>>

\* The parts of the state a specification does not use stay as constructed.
IdleClock ==
    /\ now = 0
    /\ ticks = 0

IdleBudget ==
    /\ budget_config = BudgetConfig(None, None, None, 1, "allow")
    /\ entries = <<>>
    /\ recorded = 0
    /\ returned = None

IdleQuota ==
    /\ latest = None
    /\ push_within_minutes = 15

IdleTiers ==
    /\ router_config = None
    /\ dg_orig = ""
    /\ dg_steps = <<>>
    /\ dg_tier = ""

IdleSSE ==
    /\ extractor = SSETokenExtractor
    /\ sse_stream = <<>>
    /\ sse_pos = 0
    /\ sse_phase = "finalized"
    /\ sse_cut = FALSE

IdleUnicode ==
    /\ uni_orig = <<>>
    /\ uni_text = <<>>
    /\ uni_strips = 0

IdleDowngrade ==
    /\ dg_orig = ""
    /\ dg_steps = <<>>
    /\ dg_tier = ""

IdleProxy ==
    /\ environ = None
    /\ phase = "boot"
    /\ budget_manager = None
    /\ quota_tracker = None
    /\ smart_router_ready = FALSE
    /\ classifier_globals = ClassifierGlobals(None, <<>>, FALSE)
    /\ inflight = <<>>
    /\ handled = 0
    /\ delivered = None
    /\ last = None
    /\ seen_quota = None

IdleBridge ==
    /\ bridge_format = "anthropic"
    /\ bridge_stream = <<>>
    /\ bridge_raises = "never"
    /\ bridge_pos = 0
    /\ bridge_tokens = JNum(0)
    /\ bridge_out = <<>>
    /\ bridge_pc = "done"

IdleRequest ==
    /\ rq_request = None
    /\ rq_reply = None
    /\ rq_pc = "returned"
    /\ rq_guarded = None
    /\ rq_fwd = None
    /\ rq_response = None
    /\ rq_client = "none"
    /\ rq_upstream = "none"
    /\ rq_extractor = SSETokenExtractor
    /\ rq_rest = <<>>
    /\ rq_result = None
    /\ rq_stages = <<>>

IdleParse == parse_raw = None /\ parse_result = None
IdleClassify ==
    /\ classify_globals = None /\ classify_body = None
    /\ classify_default = "" /\ classify_ml = None /\ classify_outcome = None
IdleGuard ==
    gs_env = None /\ gs_request = None /\ gs_out = None /\ gs_result = None
IdleHeaders == hd_headers = None /\ hd_target = None /\ hd_out = None
IdleTranslate == tr_body = None /\ tr_messages = None
IdleLock ==
    /\ lk_running = "" /\ lk_pc = None /\ lk_holder = ""
    /\ lk_entries = <<>> /\ lk_stamp = None /\ lk_seen = None
IdleResolve ==
    rs_config = None /\ rs_tier = "" /\ rs_exclude = {} /\ rs_target = None
IdleBuffered ==
    /\ bf_response = None /\ bf_model = "" /\ bf_manager = FALSE
    /\ bf_out = None
IdleExtra ==
    /\ IdleParse /\ IdleClassify /\ IdleGuard /\ IdleHeaders /\ IdleTranslate
    /\ IdleLock /\ IdleResolve /\ IdleBuffered
IdleAux == IdleBridge /\ IdleRequest /\ quota_call = None /\ IdleExtra

\* What each specification leaves alone.
restOfBudget == <<quotaVars, tierVars, sseVars, uniVars, proxyVars, auxVars>>
restOfQuota ==
    <<budgetVars, tierVars, sseVars, uniVars, proxyVars, bridgeVars,
      requestVars, extraVars>>
restOfTiers ==
    <<clockVars, budgetVars, quotaVars, sseVars, uniVars, proxyVars, auxVars>>
restOfSSE ==
    <<clockVars, budgetVars, quotaVars, tierVars, uniVars, proxyVars, auxVars>>
restOfUnicode ==
    <<clockVars, budgetVars, quotaVars, tierVars, sseVars, proxyVars, auxVars>>
restOfProxy == <<downgradeVars, sseVars, uniVars, auxVars>>
restOfBridge ==
    <<clockVars, budgetVars, quotaVars, tierVars, sseVars, uniVars, proxyVars,
      requestVars, quota_call, extraVars>>
requestGlobals ==
    <<environ, phase, budget_manager, quota_tracker, smart_router_ready,
      classifier_globals, router_config, budget_config, push_within_minutes>>
restOfRequest ==
    <<clockVars, downgradeVars, sseVars, uniVars, inflight, handled,
      delivered, last, seen_quota, bridgeVars, quota_call, extraVars>>

IdleAll ==
    IdleClock /\ IdleBudget /\ IdleQuota /\ IdleTiers /\ IdleSSE
        /\ IdleUnicode /\ IdleProxy
IdleRestOfBudget ==
    IdleQuota /\ IdleTiers /\ IdleSSE /\ IdleUnicode /\ IdleProxy /\ IdleAux
IdleRestOfQuota ==
    IdleBudget /\ IdleTiers /\ IdleSSE /\ IdleUnicode /\ IdleProxy
        /\ IdleBridge /\ IdleRequest /\ IdleExtra
IdleRestOfTiers ==
    IdleClock /\ IdleBudget /\ IdleQuota /\ IdleSSE /\ IdleUnicode
        /\ IdleProxy /\ IdleAux
IdleRestOfSSE ==
    IdleClock /\ IdleBudget /\ IdleQuota /\ IdleTiers /\ IdleUnicode
        /\ IdleProxy /\ IdleAux
IdleRestOfUnicode ==
    IdleClock /\ IdleBudget /\ IdleQuota /\ IdleTiers /\ IdleSSE
        /\ IdleProxy /\ IdleAux
IdleRestOfProxy == IdleDowngrade /\ IdleSSE /\ IdleUnicode /\ IdleAux
IdleRestOfBridge ==
    IdleAll /\ IdleRequest /\ quota_call = None /\ IdleExtra
IdleRestOfRequest ==
    /\ IdleClock /\ IdleDowngrade /\ IdleSSE /\ IdleUnicode /\ IdleBridge
    /\ quota_call = None /\ IdleExtra
    /\ inflight = <<>>
    /\ handled = 0
    /\ delivered = None
    /\ last = None
    /\ seen_quota = None


(***************************************************************************)
(* SpecBudget: the budget manager as an object (construction,              *)
(* record_cost calls and the passing of time)                              *)
(***************************************************************************)

\* BudgetManager(config): an empty log.
InitBudget ==
    /\ now = 0
    /\ ticks = 0
    /\ budget_config \in BudgetConfigs
    /\ entries = <<>>
    /\ recorded = 0
    /\ returned = None
    /\ IdleRestOfBudget

\* Time passes.
BudgetTick(d) ==
    /\ ticks < MaxTicks
    /\ now' = now + d
    /\ ticks' = ticks + 1
    /\ returned' = None
    /\ UNCHANGED <<budget_config, entries, recorded>>
    /\ UNCHANGED restOfBudget

\* One record_cost call; d is the time between its two clock reads.
RecordCost(u, d) ==
    /\ recorded < MaxRecords
    /\ d > 0 => ticks < MaxTicks
    /\ LET r == record_cost(entries, u.model, u.input_tokens,
                            u.output_tokens, now, now + d)
       IN  /\ entries' = r.entries
           /\ returned' = [cost |-> r.cost]
    /\ recorded' = recorded + 1
    /\ now' = now + d
    /\ ticks' = IF d > 0 THEN ticks + 1 ELSE ticks
    /\ UNCHANGED budget_config
    /\ UNCHANGED restOfBudget

NextBudget ==
    \/ \E d \in TickDeltas : BudgetTick(d)
    \/ \E u \in Usages, d \in {0, HOUR} : RecordCost(u, d)

SpecBudget == InitBudget /\ [][NextBudget]_vars

(***************************************************************************)
(* SpecQuota: the quota tracker as an object (construction, update         *)
(* calls and the passing of time)                                          *)
(***************************************************************************)

\* QuotaTracker(push_within_minutes)
InitQuota ==
    /\ now = 0
    /\ ticks = 0
    /\ latest = None
    /\ push_within_minutes \in PushWindows
    /\ quota_call = None
    /\ IdleRestOfQuota

QuotaTick(d) ==
    /\ ticks < MaxTicks
    /\ now' = now + d
    /\ ticks' = ticks + 1
    /\ UNCHANGED <<quotaVars, quota_call>>
    /\ UNCHANGED restOfQuota

QuotaUpdate(headers) ==
    /\ latest' = update(latest, headers, now)
    /\ UNCHANGED quota_call
    /\ UNCHANGED <<push_within_minutes, clockVars>>
    /\ UNCHANGED restOfQuota

NextQuota ==
    \/ \E d \in QuotaTickDeltas : QuotaTick(d)
    \/ \E headers \in QuotaHeaders(now) : QuotaUpdate(headers)

\* A call of QuotaTracker.update, with the call recorded.
RecordedUpdate(headers) ==
    /\ latest' = update(latest, headers, now)
    /\ quota_call' = [headers |-> headers, prev |-> latest, at |-> now]
    /\ UNCHANGED <<clockVars, push_within_minutes>>
    /\ UNCHANGED restOfQuota

NextUpdate ==
    \/ \E d \in QuotaTickDeltas : QuotaTick(d)
    \/ \E headers \in UpdateHeaders(now) : RecordedUpdate(headers)

SpecUpdate == InitQuota /\ [][NextUpdate]_vars

SpecQuota == InitQuota /\ [][NextQuota]_vars

(***************************************************************************)
(* SpecTiers: downgrade_tier applied to a tier, and again to its result    *)
(***************************************************************************)

InitTiers ==
    /\ router_config \in {OrderOnlyConfig(o) : o \in Orders(TierNames)}
    /\ dg_orig \in TierNames \cup {"other"}
    /\ dg_steps = <<>>
    /\ dg_tier = dg_orig
    /\ IdleRestOfTiers

\* tier = downgrade_tier(config, tier, steps)
Downgrade(steps) ==
    /\ Len(dg_steps) < MaxDowngradeCalls
    /\ dg_tier' = downgrade_tier(router_config, dg_tier, steps)
    /\ dg_steps' = Append(dg_steps, steps)
    /\ UNCHANGED <<router_config, dg_orig>>
    /\ UNCHANGED restOfTiers

NextTiers == \E steps \in 0..MaxSteps : Downgrade(steps)

SpecTiers == InitTiers /\ [][NextTiers]_vars

(***************************************************************************)
(* SpecSSE: one extractor fed a byte stream in chunks of any sizes, then   *)
(* finalized.  A call that raises ends the sequence of calls.              *)
(***************************************************************************)

InitSSE ==
    /\ extractor = SSETokenExtractor
    /\ sse_stream \in StreamsOf(MaxPieces)
    /\ sse_pos = 0
    /\ sse_phase = "feeding"
    /\ sse_cut = FALSE
    /\ IdleRestOfSSE

\* extractor.feed(chunk), the chunk being the next k bytes of the stream.
Feed(k) ==
    /\ sse_phase = "feeding"
    /\ sse_pos + k <= Len(sse_stream)
    /\ LET r == feed(extractor, SubSeq(sse_stream, sse_pos + 1, sse_pos + k))
       IN  /\ extractor' = r.ex
           /\ sse_phase' = IF r.raised THEN "raised" ELSE "feeding"
           /\ sse_cut' = (sse_cut \/ (~r.raised /\ r.ex.line_buffer # <<>>
                                      /\ sse_pos + k < Len(sse_stream)
                                      /\ sse_stream[sse_pos + k + 1] # NL))
    /\ sse_pos' = sse_pos + k
    /\ UNCHANGED sse_stream
    /\ UNCHANGED restOfSSE

\* extractor.finalize(), once the whole stream has been fed.
Finalize ==
    /\ sse_phase = "feeding"
    /\ sse_pos = Len(sse_stream)
    /\ LET r == finalize(extractor)
       IN  /\ extractor' = r.ex
           /\ sse_phase' = IF r.raised THEN "raised" ELSE "finalized"
    /\ UNCHANGED <<sse_stream, sse_pos, sse_cut>>
    /\ UNCHANGED restOfSSE

NextSSE ==
    \/ \E k \in 0..Len(sse_stream) : Feed(k)
    \/ Finalize

SpecSSE == InitSSE /\ [][NextSSE]_vars

(***************************************************************************)
(* SpecUnicode: strip_hidden_unicode applied to a text, and again to its   *)
(* result                                                                  *)
(***************************************************************************)

InitUnicode ==
    /\ uni_orig \in Texts
    /\ uni_text = uni_orig
    /\ uni_strips = 0
    /\ IdleRestOfUnicode

\* text = strip_hidden_unicode(text)
Strip ==
    /\ uni_strips < MaxStrips
    /\ uni_text' = strip_hidden_unicode(uni_text)
    /\ uni_strips' = uni_strips + 1
    /\ UNCHANGED uni_orig
    /\ UNCHANGED restOfUnicode

NextUnicode == Strip

SpecUnicode == InitUnicode /\ [][NextUnicode]_vars

(***************************************************************************)
(* Spec: the running proxy.  Startup, then requests; each request is       *)
(* handled up to the response the handler returns itself or the upstream   *)
(* call it makes, and the upstream's answer is handled when it comes.      *)
(***************************************************************************)

\* The smart router state as the handler sees it.
CurrentGlobals ==
    Globals(router_config, budget_manager, budget_config, quota_tracker,
            push_within_minutes, smart_router_ready, classifier_globals)

\* An upstream exchange: the call, and how far its answer has come.
Exchange(fwd) ==
    [fwd |-> fwd, state |-> "sent", status_code |-> 0,
     extractor |-> SSETokenExtractor, rest |-> <<>>]

Remove(s, i) == SubSeq(s, 1, i - 1) \o SubSeq(s, i + 1, Len(s))

\* The module is imported: nothing is initialized yet.
Init ==
    /\ environ \in Environments
    /\ phase = "boot"
    /\ router_config = InitialGlobals.router_config
    /\ budget_manager = InitialGlobals.budget_manager
    /\ budget_config = InitialGlobals.budget_config
    /\ quota_tracker = InitialGlobals.quota_tracker
    /\ push_within_minutes = InitialGlobals.push_within_minutes
    /\ smart_router_ready = InitialGlobals.smart_router_ready
    /\ classifier_globals = InitialGlobals.classifier
    /\ entries = <<>>
    /\ recorded = 0
    /\ returned = None
    /\ latest = None
    /\ inflight = <<>>
    /\ handled = 0
    /\ delivered = None
    /\ last = None
    /\ seen_quota = None
    /\ IdleClock
    /\ IdleRestOfProxy

\* lifespan: _init_smart_router() runs before any request is served.
Startup ==
    /\ phase = "boot"
    /\ phase' = "serving"
    /\ LET g == init_smart_router(environ)
       IN  /\ router_config' = g.router_config
           /\ budget_manager' = g.budget_manager
           /\ budget_config' = g.budget_config
           /\ quota_tracker' = g.quota_tracker
           /\ push_within_minutes' = g.push_within_minutes
           /\ smart_router_ready' = g.smart_router_ready
           /\ classifier_globals' = g.classifier
    /\ UNCHANGED <<environ, inflight, handled, delivered, last, seen_quota>>
    /\ UNCHANGED <<clockVars, entries, recorded, returned, latest>>
    /\ UNCHANGED restOfProxy

\* await _budget_manager.record_cost(...) when there is usage to record and
\* a budget manager.
RecordUsage(usage) ==
    IF usage # None /\ budget_manager # None
    THEN LET r == record_cost(entries, usage.model, usage.input_tokens,
                              usage.output_tokens, now, now)
         IN  /\ entries' = r.entries
             /\ recorded' = recorded + 1
             /\ returned' = [cost |-> r.cost]
    ELSE UNCHANGED <<entries, recorded, returned>>

\* proxy(request, path), up to its return or its upstream call.
HandleRequest(request, reply, ml) ==
    /\ phase = "serving"
    /\ handled < MaxRequests
    /\ Len(inflight) < MaxInFlight
    /\ LET out == proxy(CurrentGlobals, environ, entries, latest, request,
                        reply, ml, now)
           body_dict == guard_stage(environ, request, reply).body_dict
       IN  /\ last' = [request |-> request, out |-> out, t |-> now,
                       entries |-> entries, seen_quota |-> seen_quota,
                       classified |->
                           IF body_dict = None \/ router_config = None
                           THEN ""
                           ELSE classify_request(classifier_globals,
                                    body_dict, router_config.default_tier, ml)]
           /\ IF out.result.kind = "forward"
              THEN /\ inflight' = Append(inflight, Exchange(out.result))
                   /\ UNCHANGED delivered
              ELSE /\ delivered' = out.result
                   /\ UNCHANGED inflight
    /\ handled' = handled + 1
    /\ UNCHANGED <<environ, phase, budget_manager, quota_tracker,
                   smart_router_ready, classifier_globals, seen_quota>>
    /\ UNCHANGED <<clockVars, budgetVars, quotaVars, router_config>>
    /\ UNCHANGED restOfProxy

\* client.send raises: the 502.
ConnectError(i) ==
    /\ i \in 1..Len(inflight)
    /\ inflight[i].state = "sent"
    /\ inflight[i].fwd.via # "cross_format"
    /\ delivered' = UpstreamFailed
    /\ inflight' = Remove(inflight, i)
    /\ UNCHANGED <<environ, phase, budget_manager, quota_tracker,
                   smart_router_ready, classifier_globals, handled, last,
                   seen_quota>>
    /\ UNCHANGED <<clockVars, budgetVars, quotaVars, router_config>>
    /\ UNCHANGED restOfProxy

\* client.send returns: lines 531-614.
UpstreamAnswer(i, response) ==
    /\ i \in 1..Len(inflight)
    /\ inflight[i].state = "sent"
    /\ inflight[i].fwd.via # "cross_format"
    /\ latest' = IF quota_tracker # None
                 THEN update(latest, response.headers, now) ELSE latest
    /\ seen_quota' = update(seen_quota, response.headers, now)
    /\ IF inflight[i].fwd.is_trackable /\ IsStreaming(response)
       THEN /\ inflight' = [inflight EXCEPT
                               ![i].state = "streaming",
                               ![i].status_code = response.status_code,
                               ![i].rest = response.body.stream]
            /\ UNCHANGED <<delivered, entries, recorded, returned>>
       ELSE /\ inflight' = Remove(inflight, i)
            /\ delivered' = Relayed(response.status_code,
                                    inflight[i].fwd.routing_headers,
                                    response.body)
            /\ IF inflight[i].fwd.is_trackable
               THEN RecordUsage(BufferedUsage(response,
                                              inflight[i].fwd.request_model))
               ELSE UNCHANGED <<entries, recorded, returned>>
    /\ UNCHANGED <<environ, phase, budget_manager, quota_tracker,
                   smart_router_ready, classifier_globals, handled, last>>
    /\ UNCHANGED <<clockVars, budget_config, push_within_minutes,
                   router_config>>
    /\ UNCHANGED restOfProxy

\* The finally clause of stream_with_usage, None when finalize() raises.
FinalUsage(ex, request_model) ==
    IF finalize(ex).raised THEN None
    ELSE StreamedUsage(finalize(ex).ex, request_model)

\* stream_with_usage: the next chunk is fed to the extractor and relayed;
\* if feed raises, the finally clause runs at once.
StreamChunk(i, k) ==
    /\ i \in 1..Len(inflight)
    /\ inflight[i].state = "streaming"
    /\ inflight[i].rest # <<>>
    /\ LET n == Min(k, Len(inflight[i].rest))
           r == feed(inflight[i].extractor, SubSeq(inflight[i].rest, 1, n))
       IN  IF r.raised
           THEN /\ inflight' = Remove(inflight, i)
                /\ delivered' = Relayed(inflight[i].status_code,
                                        inflight[i].fwd.routing_headers,
                                        BodyGarbage)
                /\ RecordUsage(FinalUsage(r.ex, inflight[i].fwd.request_model))
           ELSE /\ inflight' = [inflight EXCEPT
                                   ![i].extractor = r.ex,
                                   ![i].rest = SubSeq(@, n + 1, Len(@))]
                /\ UNCHANGED <<delivered, entries, recorded, returned>>
    /\ UNCHANGED <<environ, phase, budget_manager, quota_tracker,
                   smart_router_ready, classifier_globals, handled, last,
                   seen_quota>>
    /\ UNCHANGED <<clockVars, budget_config, quotaVars, router_config>>
    /\ UNCHANGED restOfProxy

\* stream_with_usage ends, with the stream or because the client has gone:
\* the finally clause.
StreamFinally(i) ==
    /\ i \in 1..Len(inflight)
    /\ inflight[i].state = "streaming"
    /\ inflight' = Remove(inflight, i)
    /\ delivered' = Relayed(inflight[i].status_code,
                            inflight[i].fwd.routing_headers,
                            BodyStream(<<>>))
    /\ RecordUsage(FinalUsage(inflight[i].extractor,
                              inflight[i].fwd.request_model))
    /\ UNCHANGED <<environ, phase, budget_manager, quota_tracker,
                   smart_router_ready, classifier_globals, handled, last,
                   seen_quota>>
    /\ UNCHANGED <<clockVars, budget_config, quotaVars, router_config>>
    /\ UNCHANGED restOfProxy

\* Time passes.
Tick(d) ==
    /\ phase = "serving"
    /\ ticks < MaxProxyTicks
    /\ now' = now + d
    /\ ticks' = ticks + 1
    /\ UNCHANGED proxyVars
    /\ UNCHANGED <<budgetVars, quotaVars, router_config>>
    /\ UNCHANGED restOfProxy

Next ==
    \/ Startup
    \/ \E request \in Requests, reply \in GuardReplies, ml \in MlResults :
           HandleRequest(request, reply, ml)
    \/ \E i \in 1..MaxInFlight : ConnectError(i)
    \/ \E i \in 1..MaxInFlight, response \in UpstreamResponses(now) :
           UpstreamAnswer(i, response)
    \/ \E i \in 1..MaxInFlight, k \in StreamChunkSizes : StreamChunk(i, k)
    \/ \E i \in 1..MaxInFlight : StreamFinally(i)
    \/ \E d \in ProxyTickDeltas : Tick(d)

Spec == Init /\ [][Next]_vars


(***************************************************************************)
(* SpecRequest: one request through proxy() and _forward_via_httpx, from   *)
(* one await to the next, in a proxy whose startup has run.  rq_stages     *)
(* records the stages in the order in which they are passed.               *)
(***************************************************************************)

InitRequest ==
    /\ environ \in Environments
    /\ phase = "serving"
    /\ LET g == init_smart_router(environ)
       IN  /\ router_config = g.router_config
           /\ budget_manager = g.budget_manager
           /\ budget_config = g.budget_config
           /\ quota_tracker = g.quota_tracker
           /\ push_within_minutes = g.push_within_minutes
           /\ smart_router_ready = g.smart_router_ready
           /\ classifier_globals = g.classifier
    /\ entries = <<>>
    /\ recorded = 0
    /\ returned = None
    /\ latest = None
    /\ rq_request \in Requests
    /\ rq_reply \in GuardReplies
    /\ rq_pc = "guard"
    /\ rq_guarded = None
    /\ rq_fwd = None
    /\ rq_response = None
    /\ rq_client = "none"
    /\ rq_upstream = "none"
    /\ rq_extractor = SSETokenExtractor
    /\ rq_rest = <<>>
    /\ rq_result = None
    /\ rq_stages = <<>>
    /\ IdleRestOfRequest

\* What no step of a request changes.
RequestFrame ==
    /\ UNCHANGED <<rq_request, rq_reply>>
    /\ UNCHANGED requestGlobals
    /\ UNCHANGED restOfRequest

\* proxy.py lines 660-701: the body is read and parsed and the guard hooks
\* run.
GuardStage ==
    /\ rq_pc = "guard"
    /\ LET guarded == guard_stage(environ, rq_request, rq_reply)
       IN  /\ rq_guarded' = guarded
           /\ IF guarded.blocked # None
              THEN /\ rq_result' = guarded.blocked
                   /\ rq_pc' = "returned"
              ELSE /\ rq_result' = rq_result
                   /\ rq_pc' = "routing"
    /\ rq_stages' = Append(rq_stages, "guard")
    /\ UNCHANGED <<rq_fwd, rq_response, rq_client, rq_upstream, rq_extractor,
                   rq_rest>>
    /\ UNCHANGED <<entries, recorded, returned, latest>>
    /\ RequestFrame

\* proxy.py lines 704-829: tier selection and target resolution when smart
\* routing is ready, and the choice of the upstream call.
Routing(ml) ==
    /\ rq_pc = "routing"
    /\ LET out == proxy(CurrentGlobals, environ, entries, latest, rq_request,
                        rq_reply, ml, now)
           smart == smart_router_ready /\ IsTrackable(rq_request)
                    /\ rq_guarded.body_dict # None
       IN  /\ rq_stages' = rq_stages \o (IF smart THEN <<"tier_selection">>
                                         ELSE <<>>)
           /\ IF out.result.kind = "forward"
              THEN /\ rq_fwd' = out.result
                   /\ rq_pc' = "forward"
                   /\ rq_result' = rq_result
              ELSE /\ rq_fwd' = rq_fwd
                   /\ rq_pc' = "returned"
                   /\ rq_result' = out.result
    /\ UNCHANGED <<rq_guarded, rq_response, rq_client, rq_upstream,
                   rq_extractor, rq_rest>>
    /\ UNCHANGED <<entries, recorded, returned, latest>>
    /\ RequestFrame

\* The same step, were the cost of the request recorded when it is sent.
SendRecordingCost ==
    /\ rq_pc = "forward"
    /\ rq_fwd.via # "cross_format"
    /\ rq_client' = "open"
    /\ rq_pc' = "sending"
    /\ rq_stages' = rq_stages \o <<"send", "cost">>
    /\ RecordUsage([model |-> rq_fwd.request_model, input_tokens |-> 1,
                    output_tokens |-> 1])
    /\ UNCHANGED <<rq_guarded, rq_fwd, rq_response, rq_upstream, rq_extractor,
                   rq_rest, rq_result>>
    /\ UNCHANGED latest
    /\ RequestFrame

\* proxy.py lines 501-513: the client is made and the request is sent.
Send ==
    /\ rq_pc = "forward"
    /\ rq_fwd.via # "cross_format"
    /\ rq_client' = "open"
    /\ rq_pc' = "sending"
    /\ rq_stages' = Append(rq_stages, "send")
    /\ UNCHANGED <<rq_guarded, rq_fwd, rq_response, rq_upstream, rq_extractor,
                   rq_rest, rq_result>>
    /\ UNCHANGED <<entries, recorded, returned, latest>>
    /\ RequestFrame

\* The same step, were a failed send tried again.
SendErrorRetrying ==
    /\ rq_pc = "sending"
    /\ rq_client' = "closed"
    /\ rq_pc' = "forward"
    /\ UNCHANGED <<rq_guarded, rq_fwd, rq_response, rq_upstream, rq_extractor,
                   rq_rest, rq_stages, rq_result>>
    /\ UNCHANGED <<entries, recorded, returned, latest>>
    /\ RequestFrame

\* proxy.py lines 514-529: client.send raises an Exception.
SendError ==
    /\ rq_pc = "sending"
    /\ rq_client' = "closed"
    /\ rq_result' = UpstreamFailed
    /\ rq_pc' = "returned"
    /\ UNCHANGED <<rq_guarded, rq_fwd, rq_response, rq_upstream, rq_extractor,
                   rq_rest, rq_stages>>
    /\ UNCHANGED <<entries, recorded, returned, latest>>
    /\ RequestFrame

\* The task is cancelled while it awaits client.send (line 513) or
\* upstream_response.aread() (line 575): CancelledError is not an Exception,
\* no except clause of lines 514-529 and 594-597 takes it.
Cancelled ==
    /\ rq_pc \in {"sending", "reading"}
    /\ rq_result' = [kind |-> "cancelled"]
    /\ rq_pc' = "returned"
    /\ UNCHANGED <<rq_guarded, rq_fwd, rq_response, rq_client, rq_upstream,
                   rq_extractor, rq_rest, rq_stages>>
    /\ UNCHANGED <<entries, recorded, returned, latest>>
    /\ RequestFrame

\* The bytes a response body arrives as.
BodyBytes(body) == IF body.kind = "sse" THEN body.stream ELSE <<"x">>

\* proxy.py lines 531-571 and 599-614: client.send returns.  The quota
\* tracker sees the headers; a trackable response that is not an event
\* stream is read next, any other is returned as a StreamingResponse whose
\* generator has not started.
Answer(response) ==
    /\ rq_pc = "sending"
    /\ rq_response' = response
    /\ rq_upstream' = "open"
    /\ latest' = IF quota_tracker # None
                 THEN update(latest, response.headers, now) ELSE latest
    /\ rq_stages' = Append(rq_stages, "response")
    /\ IF rq_fwd.is_trackable /\ ~IsStreaming(response)
       THEN /\ rq_pc' = "reading"
            /\ UNCHANGED <<rq_rest, rq_result>>
       ELSE /\ rq_pc' = "stream_ready"
            /\ rq_rest' = BodyBytes(response.body)
            /\ rq_result' = Relayed(response.status_code,
                                    rq_fwd.routing_headers, response.body)
    /\ UNCHANGED <<rq_guarded, rq_fwd, rq_client, rq_extractor>>
    /\ UNCHANGED <<entries, recorded, returned>>
    /\ RequestFrame

\* proxy.py lines 575-593: the body is read, both are closed, the usage of
\* a 200 response is recorded.
ReadBody ==
    /\ rq_pc = "reading"
    /\ rq_upstream' = "closed"
    /\ rq_client' = "closed"
    /\ LET usage == BufferedUsage(rq_response, rq_fwd.request_model)
       IN  /\ RecordUsage(usage)
           /\ rq_stages' = rq_stages \o
                  (IF usage # None /\ budget_manager # None
                   THEN <<"cost">> ELSE <<>>)
    /\ rq_result' = Relayed(rq_response.status_code, rq_fwd.routing_headers,
                            rq_response.body)
    /\ rq_pc' = "returned"
    /\ UNCHANGED <<rq_guarded, rq_fwd, rq_response, rq_extractor, rq_rest>>
    /\ UNCHANGED latest
    /\ RequestFrame

\* proxy.py lines 818-829: the legacy call of _forward_via_httpx.
LegacyForward ==
    proxy([CurrentGlobals EXCEPT !.smart_router_ready = FALSE], environ,
          entries, latest, rq_request, rq_reply, MlRaises, now).result

\* proxy.py lines 594-599: aread() raises an Exception, both are closed and
\* the exception is raised again.  From the legacy call (line 821) it
\* leaves the handler; from the routed call (line 793) it is caught at
\* line 814 and legacy forwarding follows.
ReadFails ==
    /\ rq_pc = "reading"
    /\ rq_upstream' = "closed"
    /\ rq_client' = "closed"
    /\ IF rq_fwd.via = "legacy"
       THEN /\ rq_result' = [kind |-> "raised"]
            /\ rq_pc' = "returned"
            /\ UNCHANGED rq_fwd
       ELSE /\ rq_fwd' = LegacyForward
            /\ rq_pc' = "forward"
            /\ UNCHANGED rq_result
    /\ UNCHANGED <<rq_guarded, rq_response, rq_extractor, rq_rest,
                   rq_stages>>
    /\ UNCHANGED <<entries, recorded, returned, latest>>
    /\ RequestFrame

\* The StreamingResponse is never iterated (the client has gone before the
\* body starts): the generator does not start, so its finally clause
\* (lines 559-565, 605-607) does not run.
Abandon ==
    /\ rq_pc = "stream_ready"
    /\ rq_pc' = "abandoned"
    /\ UNCHANGED <<rq_guarded, rq_fwd, rq_response, rq_client, rq_upstream,
                   rq_extractor, rq_rest, rq_result, rq_stages>>
    /\ UNCHANGED <<entries, recorded, returned, latest>>
    /\ RequestFrame

\* The finally clause: lines 559-565 of stream_with_usage for a trackable
\* response, lines 605-607 of stream_response for any other.  A statement
\* that raises ends the clause: the statements after it do not run.
Finalizer(ex, stages) ==
    IF rq_fwd.is_trackable
    THEN LET fin == finalize(ex)
             usage == IF fin.raised THEN None
                      ELSE StreamedUsage(fin.ex, rq_fwd.request_model)
         IN  /\ rq_extractor' = fin.ex
             /\ RecordUsage(usage)
             /\ IF fin.raised
                THEN /\ UNCHANGED <<rq_client, rq_upstream>>
                     /\ rq_stages' = Append(stages, "finalize_raised")
                ELSE /\ rq_upstream' = "closed"
                     /\ rq_client' = "closed"
                     /\ rq_stages' = stages \o <<"finalize">> \o
                            (IF usage # None /\ budget_manager # None
                             THEN <<"cost">> ELSE <<>>) \o <<"close">>
    ELSE /\ rq_upstream' = "closed"
         /\ rq_client' = "closed"
         /\ rq_stages' = Append(stages, "close")
         /\ UNCHANGED <<rq_extractor, entries, recorded, returned>>

\* Lines 554-558 and 601-604: the next chunk is fed to the extractor (for a
\* trackable response) and yielded; if feed raises, the finally clause runs
\* and the stream breaks off.
RelayChunk(k) ==
    /\ rq_pc \in {"stream_ready", "streaming"}
    /\ rq_rest # <<>>
    /\ LET n == Min(k, Len(rq_rest))
           r == IF rq_fwd.is_trackable
                THEN feed(rq_extractor, SubSeq(rq_rest, 1, n))
                ELSE Returned(rq_extractor)
       IN  /\ rq_rest' = SubSeq(rq_rest, n + 1, Len(rq_rest))
           /\ IF r.raised
              THEN /\ Finalizer(r.ex, Append(rq_stages, "feed_raised"))
                   /\ rq_pc' = "ended"
              ELSE /\ rq_extractor' = r.ex
                   /\ rq_pc' = "streaming"
                   /\ UNCHANGED <<rq_client, rq_upstream, rq_stages>>
                   /\ UNCHANGED <<entries, recorded, returned>>
    /\ UNCHANGED <<rq_guarded, rq_fwd, rq_response, rq_result>>
    /\ UNCHANGED latest
    /\ RequestFrame

\* The generator stops: the upstream stream has ended ("end"), reading it
\* raises ("error"), or the client has disconnected in the middle of the
\* stream and the generator is closed at its yield ("disconnect").
StreamStops(cause) ==
    /\ rq_pc \in {"stream_ready", "streaming"}
    /\ cause = "end" => rq_rest = <<>>
    /\ cause = "disconnect" => rq_pc = "streaming" /\ rq_rest # <<>>
    /\ Finalizer(rq_extractor, Append(rq_stages, cause))
    /\ rq_pc' = "ended"
    /\ UNCHANGED <<rq_guarded, rq_fwd, rq_response, rq_rest, rq_result>>
    /\ UNCHANGED latest
    /\ RequestFrame

NextRequest ==
    \/ GuardStage
    \/ \E ml \in MlResults : Routing(ml)
    \/ Send
    \/ SendError
    \/ Cancelled
    \/ \E response \in RequestResponses(now) : Answer(response)
    \/ ReadBody
    \/ ReadFails
    \/ Abandon
    \/ \E k \in RequestChunkSizes : RelayChunk(k)
    \/ \E cause \in {"end", "error", "disconnect"} : StreamStops(cause)

SpecRequest == InitRequest /\ [][NextRequest]_vars


(***************************************************************************)
(* SpecBridge: forward_streaming, the generator stepped from one yield to  *)
(* the next by a client that reads it to the end                           *)
(***************************************************************************)

InitBridge ==
    /\ bridge_format \in {"anthropic", "openai"}
    /\ bridge_stream \in ChunkStreams(MaxChunks)
    /\ bridge_raises \in UpstreamFailures
    /\ bridge_pos = 0
    /\ bridge_tokens = JNum(0)
    /\ bridge_out = <<>>
    /\ bridge_pc = "acompletion"
    /\ IdleRestOfBridge

\* One step of the generator: the frames it yields and where it goes.
BridgeStep(frames, pc) ==
    /\ bridge_out' = bridge_out \o frames
    /\ bridge_pc' = pc
    /\ UNCHANGED <<bridge_format, bridge_stream, bridge_raises>>
    /\ UNCHANGED restOfBridge

\* Lines 165-166 and 179-189: litellm.acompletion returns the stream or
\* raises.
Acompletion ==
    /\ bridge_pc = "acompletion"
    /\ IF bridge_raises = "acompletion"
       THEN BridgeStep(<<error_event(bridge_format)>>, "failed")
       ELSE BridgeStep(<<>>, IF bridge_format = "anthropic"
                             THEN "message_start" ELSE "passthrough")
    /\ UNCHANGED <<bridge_pos, bridge_tokens>>

\* Lines 253-264.
EmitMessageStart ==
    /\ bridge_pc = "message_start"
    /\ BridgeStep(<<message_start(M_gpt4o)>>, "content_block_start")
    /\ UNCHANGED <<bridge_pos, bridge_tokens>>

\* Lines 267-269.
EmitContentBlockStart ==
    /\ bridge_pc = "content_block_start"
    /\ BridgeStep(<<content_block_start>>, "chunks")
    /\ bridge_tokens' = JNum(0)
    /\ UNCHANGED bridge_pos

\* Lines 270-287: the next chunk of the stream, the end of the stream, or
\* the exception the stream raises (lines 179-187).
TranslateChunk ==
    /\ bridge_pc = "chunks"
    /\ IF bridge_pos < Len(bridge_stream)
       THEN LET chunk == bridge_stream[bridge_pos + 1]
            IN  /\ BridgeStep(chunk_deltas(chunk), "chunks")
                /\ bridge_tokens' = chunk_usage(bridge_tokens, chunk)
                /\ bridge_pos' = bridge_pos + 1
       ELSE /\ IF bridge_raises = "stream"
               THEN BridgeStep(<<error_event(bridge_format)>>, "failed")
               ELSE BridgeStep(<<>>, "content_block_stop")
            /\ UNCHANGED <<bridge_pos, bridge_tokens>>

\* Line 290.
EmitContentBlockStop ==
    /\ bridge_pc = "content_block_stop"
    /\ BridgeStep(<<content_block_stop>>, "message_delta")
    /\ UNCHANGED <<bridge_pos, bridge_tokens>>

\* Lines 293-298.
EmitMessageDelta ==
    /\ bridge_pc = "message_delta"
    /\ BridgeStep(<<message_delta(bridge_tokens)>>, "message_stop")
    /\ UNCHANGED <<bridge_pos, bridge_tokens>>

\* Line 301.
EmitMessageStop ==
    /\ bridge_pc = "message_stop"
    /\ BridgeStep(<<message_stop>>, "done")
    /\ UNCHANGED <<bridge_pos, bridge_tokens>>

\* Lines 174-177 and 188-189: an OpenAI client gets the chunks as they are.
PassChunk ==
    /\ bridge_pc = "passthrough"
    /\ IF bridge_pos < Len(bridge_stream)
       THEN /\ BridgeStep(<<passthrough_frame(bridge_stream[bridge_pos + 1])>>,
                          "passthrough")
            /\ bridge_pos' = bridge_pos + 1
       ELSE /\ IF bridge_raises = "stream"
               THEN BridgeStep(<<error_event(bridge_format)>>, "failed")
               ELSE BridgeStep(<<done_frame>>, "done")
            /\ UNCHANGED bridge_pos
    /\ UNCHANGED bridge_tokens

NextBridge ==
    \/ Acompletion
    \/ EmitMessageStart
    \/ EmitContentBlockStart
    \/ TranslateChunk
    \/ EmitContentBlockStop
    \/ EmitMessageDelta
    \/ EmitMessageStop
    \/ PassChunk

SpecBridge == InitBridge /\ [][NextBridge]_vars


(***************************************************************************)
(* Properties of the budget manager (SpecBudget)                           *)
(***************************************************************************)

\* C4: in every reachable state of the budget log, with every configured
\* window having 0 <= warn_at_pct <= downgrade_at_pct <= 100 and
\* limit_usd >= 0, is_over_budget() implies should_downgrade() and
\* should_downgrade() implies is_warning().
C4_ThresholdsMonotone ==
    /\ is_over_budget(budget_config, entries, now)
           => should_downgrade(budget_config, entries, now)
    /\ should_downgrade(budget_config, entries, now)
           => is_warning(budget_config, entries, now)

\* A positive hourly limit has been reached by recorded spend.
C4_Witness ==
    /\ entries # <<>>
    /\ budget_config.hourly # None
    /\ budget_config.hourly.limit_usd > 0
    /\ hourly_spend(entries, now) >= budget_config.hourly.limit_usd
    /\ is_over_budget(budget_config, entries, now)

\* C5: when a record_cost call has just completed, the log holds no entry
\* stamped more than 31 days before the current time.
C5_NoEntryOlderThan31Days ==
    returned # None =>
        \A i \in 1..Len(entries) : entries[i].timestamp >= now - PRUNE_AGE

\* A record_cost call has just completed and an earlier entry was pruned.
C5_Witness ==
    /\ returned # None
    /\ recorded = 2
    /\ Len(entries) = 1

\* C6: every CostEntry in the log has cost_usd = get_cost of its own model
\* and token counts, record_cost returns the cost of the entry it appended,
\* and an entry whose model matches no key of the table is recorded at the
\* default prices (3.00 and 15.00 USD per million tokens).
C6_EntryCostIsTableCost ==
    /\ \A i \in 1..Len(entries) :
           entries[i].cost_usd =
               get_cost(entries[i].model, entries[i].input_tokens,
                        entries[i].output_tokens)
    /\ returned # None =>
           /\ entries # <<>>
           /\ returned.cost = entries[Len(entries)].cost_usd
    /\ \A i \in 1..Len(entries) :
           entries[i].model = M_unknown =>
               entries[i].cost_usd = entries[i].input_tokens * 3000
                                     + entries[i].output_tokens * 15000

\* An unknown model and a model matched by prefix are both in the log.
C6_Witness ==
    /\ returned # None
    /\ \E i \in 1..Len(entries) :
           entries[i].model = M_unknown /\ entries[i].cost_usd = 18000
    /\ \E i \in 1..Len(entries) :
           entries[i].model = M_gpt4o_dated /\ entries[i].cost_usd = 12500

(***************************************************************************)
(* Properties of the quota tracker (SpecQuota)                             *)
(***************************************************************************)

\* C8: should_max_push() is true if and only if a snapshot exists, the time
\* until its tokens_reset is strictly positive and at most
\* push_within_minutes, and tokens_remaining > 0; it is false with no
\* snapshot, with a reset that is not in the future, with a reset beyond the
\* window and with no tokens remaining.
C8_MaxPushIff ==
    LET result == should_max_push(latest, push_within_minutes, now)
    IN  /\ result <=> ( /\ latest # None
                        /\ latest.tokens_reset > now
                        /\ latest.tokens_reset <= now + 60 * push_within_minutes
                        /\ latest.tokens_remaining >= 1 )
        /\ latest = None => ~result
        /\ (latest # None /\ latest.tokens_reset <= now) => ~result
        /\ (latest # None
              /\ latest.tokens_reset > now + 60 * push_within_minutes)
                => ~result
        /\ (latest # None /\ latest.tokens_remaining = 0) => ~result

\* The reset is exactly push_within_minutes away, tokens remain, and the
\* tracker says push.
C8_Witness ==
    /\ latest # None
    /\ latest.tokens_reset = now + 60 * push_within_minutes
    /\ latest.tokens_remaining > 0
    /\ latest.updated_at < now
    /\ should_max_push(latest, push_within_minutes, now)

(***************************************************************************)
(* Properties of downgrade_tier (SpecTiers)                                *)
(***************************************************************************)

\* C7: for every tier t and step counts a, b >= 0,
\* downgrade_tier(downgrade_tier(t, a), b) = downgrade_tier(t, a + b); the
\* result of one call is the tier at index(t) + steps clamped to the last
\* index, and a tier that is not in tier_order is returned unchanged.
C7_DowngradeComposes ==
    LET order == router_config.tier_order
    IN  /\ dg_tier = downgrade_tier(router_config, dg_orig, SumSeq(dg_steps))
        /\ dg_orig \notin Range(order) => dg_tier = dg_orig
        /\ (Len(dg_steps) = 1 /\ dg_orig \in Range(order)) =>
               \E i \in 1..Len(order) :
                   /\ order[i] = dg_orig
                   /\ \/ i + dg_steps[1] <= Len(order)
                         /\ dg_tier = order[i + dg_steps[1]]
                      \/ i + dg_steps[1] > Len(order)
                         /\ dg_tier = order[Len(order)]

\* Two calls were made; the first moved without clamping and the second was
\* clamped at the lowest tier.
C7_Witness ==
    /\ Len(dg_steps) = 2
    /\ dg_steps[1] >= 1
    /\ dg_steps[2] >= 1
    /\ dg_orig \in Range(router_config.tier_order)
    /\ Len(router_config.tier_order) >= 3
    /\ IndexOf(router_config.tier_order, dg_orig) + dg_steps[1]
           < Len(router_config.tier_order)
    /\ IndexOf(router_config.tier_order, dg_orig) + dg_steps[1] + dg_steps[2]
           > Len(router_config.tier_order)
    /\ dg_tier = router_config.tier_order[Len(router_config.tier_order)]

(***************************************************************************)
(* Properties of the SSE usage extractor (SpecSSE)                         *)
(***************************************************************************)

C10_StripIdempotent ==
    uni_strips >= 1 =>
        /\ uni_text = strip_hidden_unicode(uni_orig)
        /\ detect_hidden_unicode(uni_text) = <<>>
        /\ \A i \in 1..Len(uni_text) : ~IsHidden(uni_text[i])

\* A text with two hidden code points around a visible one was stripped
\* twice; only the visible one is left.
C10_Witness ==
    /\ uni_strips = 2
    /\ Len(detect_hidden_unicode(uni_orig)) = 2
    /\ Len(uni_orig) = 3
    /\ ~IsHidden(uni_orig[2])
    /\ uni_text = <<uni_orig[2]>>

(***************************************************************************)
(* Properties of the request pipeline (Spec)                               *)
(***************************************************************************)

\* QuotaTracker's default push window, in minutes.
DEFAULT_PUSH_WITHIN_MINUTES == 15

\* Smart routing is switched on and its configuration is loaded and enabled.
SmartRoutingConfigured ==
    /\ environ.SMART_ROUTER_ENABLED
    /\ environ.config_file # None
    /\ environ.config_file.enabled

\* The last request handled is one that tier selection applies to: a
\* trackable POST with a JSON body that the guard stage has let through,
\* under a configured smart router.
LastIsSmartRouted ==
    /\ last # None
    /\ SmartRoutingConfigured
    /\ IsTrackable(last.request)
    /\ ParseBody(last.request) # None
    /\ last.out.result # ErrorResponse(400, "blocked")

\* The budget predicates over the configured budgets, when the last request
\* was handled.
LastOverBudget ==
    is_over_budget(environ.config_file.budgets, last.entries, last.t)
LastShouldDowngrade ==
    should_downgrade(environ.config_file.budgets, last.entries, last.t)

\* should_max_push() over the rate-limit headers received before the last
\* request was handled.
LastMaxPush ==
    should_max_push(last.seen_quota, DEFAULT_PUSH_WITHIN_MINUTES, last.t)

\* C1: whenever the budget manager reports over-budget (some configured
\* window's spend >= its limit) and over_budget_action is "reject", a
\* request that goes through tier selection (max-push not applying) is
\* answered with HTTP 429 budget_exceeded and no upstream request is issued
\* for it.
C1_OverBudgetRejectIs429 ==
    (/\ LastIsSmartRouted
     /\ ~LastMaxPush
     /\ LastOverBudget
     /\ environ.config_file.budgets.over_budget_action = "reject")
        => /\ last.out.result = ErrorResponse(429, "budget_exceeded")
           /\ last.out.result.kind # "forward"

\* C2: in tier selection of a smart-routed request, whenever
\* should_max_push() is true the final tier is the configured max_push_tier
\* if one is set and otherwise tier_order[0], whatever the classifier
\* returned and whatever the budget state; a configuration without
\* max_push_tier is accepted and defaults to tier_order[0].
C2_MaxPushGoesToTopTier ==
    (LastIsSmartRouted /\ LastMaxPush)
        => /\ last.out.resolved =
                  [tier |->
                      IF GetAttr(environ.config_file.budgets,
                                 "max_push_tier").ok
                         /\ environ.config_file.budgets["max_push_tier"] # ""
                      THEN environ.config_file.budgets["max_push_tier"]
                      ELSE environ.config_file.tier_order[1]]
           /\ last.out.result # ErrorResponse(429, "budget_exceeded")

\* C3: in tier selection when max-push does not apply: over budget with
\* action "allow" gives lowest_tier(); else should_downgrade() gives
\* downgrade_tier(classified, downgrade_steps); else the classified tier;
\* and the resolver is called with exactly that tier.
C3_ResolverGetsSelectedTier ==
    (/\ LastIsSmartRouted
     /\ ~LastMaxPush
     /\ ~(LastOverBudget
          /\ environ.config_file.budgets.over_budget_action = "reject"))
        => last.out.resolved =
               [tier |->
                   IF LastOverBudget THEN lowest_tier(environ.config_file)
                   ELSE IF LastShouldDowngrade
                        THEN downgrade_tier(
                                 environ.config_file, last.classified,
                                 environ.config_file.budgets.downgrade_steps)
                   ELSE last.classified]

(***************************************************************************)
(* Properties of the streaming bridge (SpecBridge)                         *)
(***************************************************************************)

RECURSIVE Concat(_)
Concat(texts) == IF texts = <<>> THEN <<>> ELSE texts[1] \o Concat(Tail(texts))

\* The texts of the content_block_delta frames among the given frames.
DeltaTexts(frames) ==
    LET ds == SelectSeq(frames, LAMBDA f : f.event = "content_block_delta")
    IN  [i \in 1..Len(ds) |-> ds[i].data.v.delta.v.text.v]

\* The non-empty choices[0].delta.content of the given chunks: one text, or
\* none, for each chunk.
FirstChoiceText(chunk) ==
    LET choices == Get(chunk, "choices", JArr(<<>>)).v
        content ==
            IF choices = <<>> THEN None
            ELSE Get(Get(choices[1], "delta", JObj(<<>>)), "content", None)
    IN  IF Truthy(content) THEN <<content.v>> ELSE <<>>

RECURSIVE FirstChoiceTexts(_)
FirstChoiceTexts(chunks) ==
    IF chunks = <<>> THEN <<>>
    ELSE FirstChoiceText(chunks[1]) \o FirstChoiceTexts(Tail(chunks))

\* The chunks the translation has read so far.
ChunksRead == SubSeq(bridge_stream, 1, bridge_pos)

\* C11: in the OpenAI-to-Anthropic translation the texts of the emitted
\* content_block_delta frames are, one for one and in order, the non-empty
\* choices[0].delta.content of the chunks that have come in: nothing added,
\* dropped or reordered.
C11_DeltasAreFirstChoiceContents ==
    bridge_format = "anthropic" /\ bridge_pc # "acompletion"
        => DeltaTexts(bridge_out) = FirstChoiceTexts(ChunksRead)

\* C12: the names of the frames, and what the framing frames carry.
EventNames(frames) == [i \in 1..Len(frames) |-> frames[i].event]

Opening == <<"message_start", "content_block_start">>
Closing == <<"content_block_stop", "message_delta", "message_stop">>

\* completion_tokens of the last usage the upstream stream carried, 0 when it
\* carried none.
RECURSIVE UpstreamOutputTokens(_)
UpstreamOutputTokens(chunks) ==
    IF chunks = <<>> THEN JNum(0)
    ELSE LET usage == Get(chunks[Len(chunks)], "usage", None)
         IN  IF Truthy(usage) THEN Get(usage, "completion_tokens", JNum(0))
             ELSE UpstreamOutputTokens(SubSeq(chunks, 1, Len(chunks) - 1))

\* frames is: the two opening frames, then only deltas, then the given
\* closing names.
Framed(frames, closing) ==
    LET names == EventNames(frames)
        n == Len(frames)
        k == Len(closing)
    IN  /\ n >= 2 + k
        /\ SubSeq(names, 1, 2) = Opening
        /\ SubSeq(names, n - k + 1, n) = closing
        /\ \A i \in 3..(n - k) : names[i] = "content_block_delta"
        /\ frames[2].data.v.index = JNum(0)
        /\ frames[2].data.v.content_block.v.text = JStr(<<>>)

\* The message_delta frame, third from the end, says end_turn and carries
\* the upstream's output tokens.
ClosedWithUsage(frames) ==
    LET md == frames[Len(frames) - 1].data.v
    IN  /\ md.delta.v.stop_reason = JStr(<<"end_turn">>)
        /\ md.usage.v.output_tokens = UpstreamOutputTokens(bridge_stream)

BridgeEnded == bridge_pc \in {"done", "failed"}

\* C12 as stated: every Anthropic stream produced for an upstream stream is
\* message_start, content_block_start (index 0, empty text), deltas,
\* content_block_stop, message_delta (end_turn, upstream output tokens),
\* message_stop, each framing event once and in that order.
C12_EveryStreamFullyFramed ==
    bridge_format = "anthropic" /\ bridge_raises # "acompletion" /\ BridgeEnded
        => Framed(bridge_out, Closing) /\ ClosedWithUsage(bridge_out)

\* C12, amended: that order holds for every upstream stream that ends
\* without raising; while it is produced the frames are a prefix of it; and
\* when reading the upstream stream raises, the frames are the two opening
\* frames, the deltas so far and one error frame, with none of the three
\* closing frames.
C12_FramedUnlessUpstreamRaises ==
    bridge_format = "anthropic" =>
        /\ bridge_pc = "done"
               => Framed(bridge_out, Closing) /\ ClosedWithUsage(bridge_out)
        /\ bridge_pc = "failed" /\ bridge_raises = "stream"
               => Framed(bridge_out, <<"error">>)
        /\ bridge_pc = "chunks" => Framed(bridge_out, <<>>)
        /\ bridge_pc = "message_delta"
               => Framed(bridge_out, <<"content_block_stop">>)
        /\ bridge_pc = "message_stop"
               => Framed(bridge_out, <<"content_block_stop", "message_delta">>)

C12_Witness ==
    /\ bridge_format = "anthropic"
    /\ bridge_pc = "done"
    /\ Len(bridge_out) = 7
    /\ bridge_tokens = JNum(7)

(***************************************************************************)
(* Properties of one request (SpecRequest)                                 *)
(***************************************************************************)

\* The request has left the proxy: the handler has returned or raised and
\* no generator of its response is left to run.
RequestOver ==
    \/ rq_pc \in {"abandoned", "ended"}
    \/ rq_pc = "returned"

\* C13: every upstream HTTP client the forwarder opens is closed on every
\* exit path of the request (connect error, other send error, cancellation
\* while connecting, buffered response read or not, stream end or error, the
\* streaming finalizer whatever its cost record step does, a body that is
\* never consumed): once the request is over no client is left open.
C13_ClientClosedOnEveryExit ==
    RequestOver => rq_client # "open"

\* Every occurrence of stage a in the history comes before every occurrence
\* of stage b.
Before(a, b) ==
    \A i, j \in 1..Len(rq_stages) :
        rq_stages[i] = a /\ rq_stages[j] = b => i < j

Passed(stage) == \E i \in 1..Len(rq_stages) : rq_stages[i] = stage

C15_FinalizerRunsOnDisconnect ==
    rq_pc = "ended" /\ Passed("disconnect") /\ rq_fwd.is_trackable
        => /\ Passed("finalize")
           /\ rq_extractor.line_buffer = <<>>
           /\ has_usage(rq_extractor) /\ budget_manager # None
                  => Passed("cost") /\ Len(entries) = 1
           /\ rq_upstream = "closed"
           /\ rq_client = "closed"

(***************************************************************************)
(* SpecParse: router_config._parse_budgets on the budgets sections of      *)
(* configuration documents                                                 *)
(***************************************************************************)

\* The section with the given members, a member being left out when Absent.
BudgetSection(hourly, daily, monthly, downgrade_steps, over_budget_action, max_push_within_minutes, max_push_tier) ==
    LET all == [n \in {"hourly", "daily", "monthly", "downgrade_steps",
                       "over_budget_action", "max_push_within_minutes",
                       "max_push_tier"} |->
                  CASE n = "hourly" -> hourly
                    [] n = "daily" -> daily
                    [] n = "monthly" -> monthly
                    [] n = "downgrade_steps" -> downgrade_steps
                    [] n = "over_budget_action" -> over_budget_action
                    [] n = "max_push_within_minutes" -> max_push_within_minutes
                    [] n = "max_push_tier" -> max_push_tier]
    IN  JObj([n \in {m \in DOMAIN all : all[m] # Absent} |-> all[n]])

WindowFive == JObj([limit_usd |-> JNum(5)])
WindowFull ==
    JObj([limit_usd |-> JNum(50), warn_at_pct |-> JNum(70),
          downgrade_at_pct |-> JNum(85)])

BudgetSections ==
    { BudgetSection(h, d, m, steps, action, within, tier) :
        h \in {Absent, WindowFive, JStr("5 usd")},
        d \in {Absent, WindowFull},
        m \in {Absent, WindowFull},
        steps \in {Absent, JNum(1), JNum(2)},
        action \in {Absent, JStr("allow"), JStr("reject")},
        within \in {Absent, JNum(20)},
        tier \in {Absent, JStr("tier1")} }

InitParse ==
    /\ parse_raw \in BudgetSections \cup {None}
    /\ parse_result = None
    /\ IdleAll /\ IdleBridge /\ IdleRequest /\ quota_call = None
    /\ IdleBuffered
    /\ IdleClassify /\ IdleGuard /\ IdleHeaders /\ IdleTranslate /\ IdleLock
    /\ IdleResolve

\* load_config: config.budgets = _parse_budgets(raw["budgets"])
ParseBudgets ==
    /\ parse_raw # None
    /\ parse_result = None
    /\ parse_result' = parse_budgets(parse_raw)
    /\ UNCHANGED parse_raw
    /\ UNCHANGED <<clockVars, budgetVars, quotaVars, tierVars, sseVars,
                   uniVars, proxyVars, bridgeVars, requestVars, quota_call,
                   bufferedVars,
                   classifyVars, guardVars, headerVars,
                   translateVars, lockVars,
                   resolveVars>>

\* A document without a budgets section: RouterConfig keeps BudgetConfig().
DefaultBudgets ==
    /\ parse_raw = None
    /\ parse_result = None
    /\ parse_result' = DefaultBudgetConfig
    /\ UNCHANGED parse_raw
    /\ UNCHANGED <<clockVars, budgetVars, quotaVars, tierVars, sseVars,
                   uniVars, proxyVars, bridgeVars, requestVars, quota_call,
                   bufferedVars,
                   classifyVars, guardVars, headerVars,
                   translateVars, lockVars,
                   resolveVars>>

NextParse == ParseBudgets \/ DefaultBudgets

SpecParse == InitParse /\ [][NextParse]_vars

(***************************************************************************)
(* SpecClassify: classifier.classify_request on bodies of any shape        *)
(***************************************************************************)

UserBlocks(blocks) == JObj([role |-> JStr("user"), content |-> JArr(blocks)])
TextBlock(text) == JObj([type |-> JStr("text"), text |-> text])
FourMessages(final) ==
    JArr(<<Message("user", TextHi), Message("assistant", TextHi),
           Message("user", TextHi), final>>)

\* Well-shaped bodies (a short chat, a longer one that needs scoring, one
\* with thinking, one with six tools, one with text blocks) and bodies whose
\* messages, tools or blocks have other shapes.
ClassifyBodies ==
    { JObj([messages |-> JArr(<<Message("user", TextHi)>>)]),
      JObj([messages |-> FourMessages(Message("user", TextHi))]),
      JObj([messages |-> FourMessages(Message("assistant", TextHi)),
            thinking |-> JObj([type |-> JStr("enabled")])]),
      JObj([messages |-> FourMessages(Message("user", TextHi)),
            tools |-> JArr(<<JNum(1), JNum(2), JNum(3), JNum(4), JNum(5),
                             JNum(6)>>)]),
      JObj([messages |-> FourMessages(UserBlocks(<<TextBlock(JStr(TextHi)),
                                                   JNum(0)>>))]),
      JObj([model |-> JStr(M_sonnet)]),
      JObj([messages |-> JNum(5)]),
      JObj([messages |-> JStr(TextHi)]),
      JObj([messages |-> JArr(<<Message("user", TextHi), JStr(TextHi)>>)]),
      JObj([messages |-> JArr(<<JStr(TextHi), Message("user", TextHi)>>)]),
      JObj([messages |-> JArr(<<Message("user", TextHi)>>),
            tools |-> JNum(3)]),
      JObj([messages |-> FourMessages(UserBlocks(<<TextBlock(JNum(7))>>))]),
      JObj([messages |->
                FourMessages(UserBlocks(<<TextBlock(JArr(<<JNum(7)>>))>>))]) }

\* The globals after init_classifier, for configurations with and without
\* the heuristic pre-filter, with more thresholds than tiers, with and
\* without RouteLLM; and the globals of a proxy in which it never ran.
ClassifyGlobals ==
    { ClassifierGlobals(None, <<>>, FALSE) }
    \cup
    { init_classifier(ClassifierConfig("mf", thresholds, bypass), order,
                      routellm) :
        thresholds \in {<<70, 30>>, <<90, 70, 30>>},
        bypass \in BOOLEAN,
        order \in {<<"tier1", "tier2", "tier3">>, <<"tier1", "tier2">>},
        routellm \in BOOLEAN }

ClassifyScores == {MlRaises, MlScore(20), MlScore(50), MlScore(95)}

InitClassify ==
    /\ classify_globals \in ClassifyGlobals
    /\ classify_body \in ClassifyBodies
    /\ classify_default \in {"tier1", "tierX"}
    /\ classify_ml \in ClassifyScores
    /\ classify_outcome = None
    /\ IdleAll /\ IdleBridge /\ IdleRequest /\ quota_call = None
    /\ IdleBuffered
    /\ IdleParse /\ IdleGuard /\ IdleHeaders /\ IdleTranslate /\ IdleLock
    /\ IdleResolve

\* tier = classify_request(body_dict, default_tier)
Classify ==
    /\ classify_outcome = None
    /\ classify_outcome' =
           classify_request_outcome(classify_globals, classify_body,
                                    classify_default, classify_ml)
    /\ UNCHANGED <<classify_globals, classify_body, classify_default,
                   classify_ml>>
    /\ UNCHANGED <<clockVars, budgetVars, quotaVars, tierVars, sseVars,
                   uniVars, proxyVars, bridgeVars, requestVars, quota_call,
                   bufferedVars,
                   parseVars, guardVars, headerVars,
                   translateVars, lockVars,
                   resolveVars>>

NextClassify == Classify

SpecClassify == InitClassify /\ [][NextClassify]_vars

(***************************************************************************)
(* SpecHeuristic: classify_request on well-shaped bodies at the limits of  *)
(* the heuristic rules (message count 3/4 and 20/21, tool count 0/1 and    *)
(* 5/6, last user text of 199/200 characters) and scores at and around     *)
(* the thresholds                                                          *)
(***************************************************************************)

LongTextLen == 250     \* length of the first user message

TextOfLen(n) == [i \in 1..n |-> 97]

\* n messages, user and assistant in turn: the first is a long user
\* message, the last user message has the given content, and when n is
\* even an assistant message follows it.
ShapedMessages(n, content) ==
    LET k == IF n % 2 = 1 THEN n ELSE n - 1
    IN  JArr([i \in 1..n |->
                 IF i = k THEN JObj([role |-> JStr("user"), content |-> content])
                 ELSE IF i = 1 THEN Message("user", TextOfLen(LongTextLen))
                 ELSE IF i % 2 = 1 THEN Message("user", TextHi)
                 ELSE Message("assistant", TextHi)])

\* Contents of the last user message: texts of 2, 199 and 200 characters,
\* and text blocks of 199 and of 200 characters in all, around a block of
\* another type.
ShapedContents ==
    { JStr(TextHi), JStr(TextOfLen(199)), JStr(TextOfLen(200)),
      JArr(<<TextBlock(JStr(TextOfLen(100))),
             JObj([type |-> JStr("image"), text |-> JStr(TextOfLen(50))]),
             TextBlock(JStr(TextOfLen(99)))>>),
      JArr(<<TextBlock(JStr(TextOfLen(100))),
             JObj([type |-> JStr("image"), text |-> JStr(TextOfLen(50))]),
             TextBlock(JStr(TextOfLen(100)))>>) }

ToolList(n) == JArr([i \in 1..n |-> JObj([name |-> JStr(<<116>>)])])

\* The members of a body besides its messages: tools and the thinking
\* fields, each left out when Absent.
ShapedBody(messages, tools, thinking, extended_thinking) ==
    LET all == [n \in {"messages", "tools", "thinking", "extended_thinking"} |->
                  CASE n = "messages" -> messages
                    [] n = "tools" -> tools
                    [] n = "thinking" -> thinking
                    [] n = "extended_thinking" -> extended_thinking]
    IN  JObj([n \in {m \in DOMAIN all : all[m] # Absent} |-> all[n]])

ThinkingEnabled == JObj([type |-> JStr("enabled")])

HeuristicBodies ==
    { ShapedBody(ShapedMessages(n, content), tools, thinking[1], thinking[2]) :
        n \in {1, 3, 4, 20, 21},
        content \in ShapedContents,
        tools \in {Absent, ToolList(0), ToolList(1), ToolList(5), ToolList(6)},
        thinking \in {<<Absent, Absent>>, <<ThinkingEnabled, Absent>>,
                      <<Absent, JBool(TRUE)>>, <<JObj(<<>>), JBool(FALSE)>>} }

\* Configurations with as many thresholds as the tiers need, with one more
\* and with one less, with and without the pre-filter and RouteLLM.
HeuristicGlobals ==
    { init_classifier(ClassifierConfig("mf", thresholds, bypass),
                      <<"tier1", "tier2", "tier3">>, routellm) :
        thresholds \in {<<70, 30>>, <<90, 70, 30, 10>>, <<70>>},
        bypass \in BOOLEAN,
        routellm \in BOOLEAN }

HeuristicScores == {MlRaises, MlScore(5), MlScore(20), MlScore(30), MlScore(50), MlScore(70), MlScore(95)}

InitHeuristic ==
    /\ classify_globals \in HeuristicGlobals
    /\ classify_body \in HeuristicBodies
    /\ classify_default \in {"tier2", "tierX"}
    /\ classify_ml \in HeuristicScores
    /\ classify_outcome = None
    /\ IdleAll /\ IdleBridge /\ IdleRequest /\ quota_call = None
    /\ IdleBuffered
    /\ IdleParse /\ IdleGuard /\ IdleHeaders /\ IdleTranslate /\ IdleLock
    /\ IdleResolve

\* tier = classify_request(body_dict, default_tier); heuristic is what
\* _heuristic_classify gives for the body.
ClassifyShaped ==
    /\ classify_outcome = None
    /\ classify_outcome' =
           [heuristic |-> heuristic_classify_outcome(classify_globals,
                                                     classify_body),
            returned |-> classify_request_outcome(classify_globals,
                                                  classify_body,
                                                  classify_default,
                                                  classify_ml)]
    /\ UNCHANGED <<classify_globals, classify_body, classify_default,
                   classify_ml>>
    /\ UNCHANGED <<clockVars, budgetVars, quotaVars, tierVars, sseVars,
                   uniVars, proxyVars, bridgeVars, requestVars, quota_call,
                   bufferedVars, parseVars, guardVars, headerVars,
                   translateVars, lockVars, resolveVars>>

NextHeuristic == ClassifyShaped

SpecHeuristic == InitHeuristic /\ [][NextHeuristic]_vars


(***************************************************************************)
(* SpecGuard: the guard stage of the handler (proxy.py lines 672-701) on   *)
(* bodies with hidden code points in every kind of text position           *)
(***************************************************************************)

\* "hi", U+200B, "world"; and a text with thirteen hidden code points.
TextHiWorld == <<104, 105, 8203, 119, 111, 114, 108, 100>>
TextTagged == <<104, 173, 1564, 8203, 8207, 8234, 8238, 8288, 8292, 8294,
                8297, 65279, 917505, 105>>

ChatBody(messages) == BodyJson(JObj([messages |-> JArr(messages)]))
SystemChatBody(system, messages) ==
    BodyJson(JObj([system |-> system, messages |-> JArr(messages)]))
Blocks(text) ==
    JArr(<<JObj([type |-> JStr("text"), text |-> JStr(text)]),
           JObj([type |-> JStr("image")])>>)
BlocksMessage(role, text) ==
    JObj([role |-> JStr(role), content |-> Blocks(text)])

\* Clean bodies, and bodies with hidden code points in a user message, in
\* the system field, in text blocks, in messages of other roles, in more
\* than ten places; a body that is not JSON.
GuardBodies ==
    { ChatBody(<<Message("user", TextHi)>>),
      ChatBody(<<Message("user", TextHiWorld)>>),
      ChatBody(<<Message("user", TextTagged), Message("user", TextHidden)>>),
      ChatBody(<<BlocksMessage("user", TextHiWorld)>>),
      SystemChatBody(JStr(TextHiWorld), <<Message("user", TextHi)>>),
      SystemChatBody(Blocks(TextHidden), <<Message("user", TextHi)>>),
      SystemChatBody(JStr(TextHi), <<Message("user", TextHi),
                                     Message("assistant", TextHi)>>),
      ChatBody(<<Message("user", TextHiWorld),
                 Message("assistant", TextHidden)>>),
      ChatBody(<<Message("user", TextHi),
                 Message("assistant", TextHiWorld)>>),
      ChatBody(<<Message("user", TextHi),
                 BlocksMessage("assistant", TextHiWorld)>>),
      ChatBody(<<Message("assistant", TextHiWorld)>>),
      ChatBody(<<Message("system", TextHiWorld), Message("user", TextHi)>>),
      BodyGarbage }

GuardEnvironments ==
    { Environment(<<"sk-ant-api", "03">>, provider, guard_url, enabled, strip,
                  FALSE, None, FALSE) :
        provider \in {"anthropic", "openai"},
        guard_url \in {"", "http://guard"},
        enabled \in BOOLEAN,
        strip \in BOOLEAN }

\* What the guard service does with a request: the failures of the POST,
\* answers other than 200, and 200 answers with a score above, at and
\* below the threshold.
GuardAnswers ==
    { GuardUnreachable, GuardRaises("timeout"), GuardRaises("unparsable"),
      GuardReply(200, 90), GuardReply(200, 80), GuardReply(200, 10),
      GuardReply(500, 90), GuardReply(403, 100) }

InitGuard ==
    /\ gs_env \in GuardEnvironments
    /\ gs_request \in {Request("POST", <<"v1", "messages">>, ClientHeaders, b) :
                          b \in GuardBodies}
    /\ gs_out = None
    /\ gs_result = None
    /\ IdleAll /\ IdleBridge /\ IdleRequest /\ quota_call = None
    /\ IdleBuffered
    /\ IdleParse /\ IdleClassify /\ IdleHeaders /\ IdleTranslate /\ IdleLock
    /\ IdleResolve

\* The handler from its start to the response it returns itself or the call
\* of the forwarder (lines 657-829); reply is what the guard service does.
RunGuardStage(reply) ==
    /\ gs_out = None
    /\ gs_out' = [stage |-> guard_stage(gs_env, gs_request, reply),
                   reason |-> block_reason(gs_env, gs_request),
                   posted |-> guard_posted(gs_env, gs_request),
                   reply |-> reply]
    /\ gs_result' = proxy(init_smart_router(gs_env), gs_env, <<>>, None,
                          gs_request, reply, MlRaises, 0).result
    /\ UNCHANGED <<gs_env, gs_request>>
    /\ UNCHANGED <<clockVars, budgetVars, quotaVars, tierVars, sseVars,
                   uniVars, proxyVars, bridgeVars, requestVars, quota_call,
                   bufferedVars,
                   parseVars, classifyVars, headerVars,
                   translateVars, lockVars,
                   resolveVars>>

NextGuard == \E reply \in GuardAnswers : RunGuardStage(reply)

SpecGuard == InitGuard /\ [][NextGuard]_vars

(***************************************************************************)
(* SpecHeaders: build_upstream_headers and build_provider_headers on       *)
(* client headers of every letter case and keys of every kind              *)
(***************************************************************************)

ClientBearer == Bearer(<<"client">>)
ClientApiKey == ApiKey(<<"client">>)

\* What clients send: credentials, host and content-length under names of
\* either letter case, and anthropic-beta lists with and without the flags
\* that an OAuth token requires.
ClientHeaderSets ==
    { ClientHeaders,
      "authorization" :> ClientBearer @@ "x-api-key" :> ClientApiKey
          @@ "host" :> <<"proxy.local">> @@ "content-length" :> <<"42">>
          @@ "content-type" :> <<"application/json">>,
      "X-Api-Key" :> ClientApiKey @@ "Host" :> <<"proxy.local">>
          @@ "Content-Length" :> <<"42">> @@ "accept" :> <<"*/*">>,
      "Authorization" :> ClientBearer @@ "x-api-key" :> ClientApiKey
          @@ "anthropic-version" :> <<"2023-01-01">>,
      "anthropic-beta" :> <<"oauth-2025-04-20", "", "tools-2024-04-04">>,
      "anthropic-beta" :> <<"claude-code-20250219", "oauth-2025-04-20">>
          @@ "Authorization" :> ClientBearer,
      "anthropic-beta" :> <<"oauth-2025-04-20", "oauth-2025-04-20">>,
      "content-type" :> <<"application/json">> }

ProxyKeys == {<<"sk-ant-api", "03">>, <<"sk-ant-oat", "01">>, <<"sk-o">>}

\* The legacy path with the configured provider and key, and same-format
\* routing to a provider of the configuration.
HeaderTargets ==
    { [path |-> "legacy",
       env |-> Environment(key, provider, "", FALSE, FALSE, FALSE, None,
                           FALSE)] :
        key \in ProxyKeys, provider \in {"anthropic", "openai"} }
    \cup
    { [path |-> "same_format",
       provider |-> ProviderConfig("p", type, "https://upstream", key)] :
        key \in ProxyKeys, type \in {"anthropic", "openai"} }

InitHeaders ==
    /\ hd_headers \in ClientHeaderSets
    /\ hd_target \in HeaderTargets
    /\ hd_out = None
    /\ IdleAll /\ IdleBridge /\ IdleRequest /\ quota_call = None
    /\ IdleBuffered
    /\ IdleParse /\ IdleClassify /\ IdleGuard /\ IdleTranslate /\ IdleLock
    /\ IdleResolve

\* Line 820: headers = build_upstream_headers(request)
BuildUpstreamHeaders ==
    /\ hd_out = None
    /\ hd_target.path = "legacy"
    /\ hd_out' = build_upstream_headers(hd_target.env, hd_headers)
    /\ UNCHANGED <<hd_headers, hd_target>>
    /\ UNCHANGED <<clockVars, budgetVars, quotaVars, tierVars, sseVars,
                   uniVars, proxyVars, bridgeVars, requestVars, quota_call,
                   bufferedVars,
                   parseVars, classifyVars, guardVars, translateVars,
                   lockVars, resolveVars>>

\* Line 791: headers = build_provider_headers(provider, request)
BuildProviderHeaders ==
    /\ hd_out = None
    /\ hd_target.path = "same_format"
    /\ hd_out' = build_provider_headers(hd_target.provider, hd_headers)
    /\ UNCHANGED <<hd_headers, hd_target>>
    /\ UNCHANGED <<clockVars, budgetVars, quotaVars, tierVars, sseVars,
                   uniVars, proxyVars, bridgeVars, requestVars, quota_call,
                   bufferedVars,
                   parseVars, classifyVars, guardVars, translateVars,
                   lockVars, resolveVars>>

NextHeaders == BuildUpstreamHeaders \/ BuildProviderHeaders

SpecHeaders == InitHeaders /\ [][NextHeaders]_vars

(***************************************************************************)
(* SpecTranslate: _anthropic_to_openai_messages on Anthropic bodies with   *)
(* text, tool_use and tool_result blocks                                   *)
(***************************************************************************)

Chars_hi == <<"h", "i">>

TrText(text) == JObj([type |-> JStr("text"), text |-> JStr(text)])
TrToolUse(id, name, input) ==
    JObj([type |-> JStr("tool_use"), id |-> JStr(id), name |-> JStr(name),
          input |-> input])
TrToolResult(id, content) ==
    JObj([type |-> JStr("tool_result"), tool_use_id |-> JStr(id),
          content |-> content])
TrMessage(role, content) == JObj([role |-> JStr(role), content |-> content])

CityInput == JObj([city |-> JStr(<<"x">>)])

\* Conversations: plain strings, text blocks, a tool call with its result,
\* tool calls between texts, a tool call in a user message and in a message
\* without a role, results whose content is a list, a content that is
\* neither a string nor a list, and blocks of other types.
TranslateMessageLists ==
    { <<>>,
      <<TrMessage("user", JStr(Chars_hi))>>,
      <<TrMessage("user", JArr(<<TrText(<<"a">>), TrText(<<"b">>)>>))>>,
      <<TrMessage("user", JStr(Chars_hi)),
        TrMessage("assistant",
                  JArr(<<TrText(<<"o", "k">>),
                         TrToolUse("t1", "get", CityInput)>>)),
        TrMessage("user", JArr(<<TrToolResult("t1", JStr(<<"s">>))>>))>>,
      <<TrMessage("assistant",
                  JArr(<<TrToolUse("t1", "get", CityInput), TrText(<<"a">>),
                         TrToolUse("t2", "put", JObj(<<>>)),
                         TrText(<<"b">>)>>))>>,
      <<TrMessage("user", JArr(<<TrToolUse("t1", "get", CityInput)>>))>>,
      <<JObj([content |-> JArr(<<TrToolUse("t1", "get", JArr(<<JNum(1), JBool(TRUE)>>))>>)])>>,
      <<TrMessage("user",
                  JArr(<<TrToolResult("t1", JArr(<<TrText(<<"s">>)>>))>>))>>,
      <<TrMessage("user",
                  JArr(<<TrText(<<"a">>), TrToolResult("t1", JStr(<<"r">>)),
                         TrText(<<"b">>)>>))>>,
      <<TrMessage("user", JNum(5))>>,
      <<TrMessage("assistant",
                  JArr(<<JObj([type |-> JStr("tool_use")])>>))>>,
      <<TrMessage("user", JArr(<<JObj([type |-> JStr("image")])>>)),
        TrMessage("assistant", JStr(<<>>))>> }

\* The system member: missing, empty, a string, text blocks, and a list
\* with no text in it.
TranslateSystems ==
    { None, JStr(<<>>), JStr(<<"s", "y", "s">>),
      JArr(<<TrText(<<"a">>), JObj([type |-> JStr("image")]),
             TrText(<<"b">>)>>),
      JArr(<<TrText(<<>>)>>) }

TranslateBodies ==
    { IF system = None THEN JObj([messages |-> JArr(msgs)])
      ELSE JObj([system |-> system, messages |-> JArr(msgs)]) :
        system \in TranslateSystems, msgs \in TranslateMessageLists }

InitTranslate ==
    /\ tr_body \in TranslateBodies
    /\ tr_messages = None
    /\ IdleAll /\ IdleBridge /\ IdleRequest /\ quota_call = None
    /\ IdleBuffered
    /\ IdleParse /\ IdleClassify /\ IdleGuard /\ IdleHeaders /\ IdleLock
    /\ IdleResolve

\* Lines 138 and 207: messages = _anthropic_to_openai_messages(body)
Translate ==
    /\ tr_messages = None
    /\ tr_messages' = [list |-> anthropic_to_openai_messages(tr_body)]
    /\ UNCHANGED tr_body
    /\ UNCHANGED <<clockVars, budgetVars, quotaVars, tierVars, sseVars,
                   uniVars, proxyVars, bridgeVars, requestVars, quota_call,
                   bufferedVars,
                   parseVars, classifyVars, guardVars, headerVars, lockVars,
                   resolveVars>>

NextTranslate == Translate

SpecTranslate == InitTranslate /\ [][NextTranslate]_vars

(***************************************************************************)
(* SpecLock: tasks of one event loop that record costs and read window     *)
(* sums.  A task runs from one suspension point to the next; the loop      *)
(* picks the next task among those that can go on.                         *)
(***************************************************************************)

Recorders == {"r1", "r2"}      \* tasks in record_cost
Readers == {"q1", "q2"}        \* tasks in should_downgrade / is_over_budget
LockTasks == Recorders \cup Readers

\* Where a task hands control back to the loop before its next statement,
\* were there an await between the append and the prune.
yields_in_section(pc) == pc \in {"waiting", "prune"}

\* Where a task hands control back to the loop before its next statement,
\* were every acquire of the lock a suspension point.
yields_at_acquire(pc) == pc \in {"waiting", "acquire"}

\* Where a task hands control back to the loop before its next statement:
\* only at an acquire that finds the lock taken.  `async with self._lock`
\* on a free lock, the append, the prune and the release run without
\* suspension, and the readers are plain functions.
yields(pc) == pc = "waiting"

InitLock ==
    /\ lk_running = "loop"
    /\ lk_pc = [t \in LockTasks |->
                   IF t \in Recorders THEN "entry" ELSE "hourly"]
    /\ lk_holder = ""
    /\ lk_entries = <<>>
    /\ lk_stamp = [t \in Recorders |-> None]
    /\ lk_seen = [t \in Readers |-> <<>>]
    /\ IdleAll /\ IdleBridge /\ IdleRequest /\ quota_call = None
    /\ IdleBuffered
    /\ IdleParse /\ IdleClassify /\ IdleGuard /\ IdleHeaders /\ IdleTranslate
    /\ IdleResolve

MaxLockTicks == 2     \* times the clock is seen to advance

\* What the clock advances by between two statements: a second, or more
\* than the age at which entries are pruned.
LockTickDeltas == {1, PRUNE_AGE + 1}

\* The token counts a task records: they tell the entries apart.
RecorderTokens(t) == IF t = "r1" THEN 10 ELSE 11

LockFrame ==
    UNCHANGED <<clockVars, budgetVars, quotaVars, tierVars, sseVars,
                uniVars, proxyVars, bridgeVars, requestVars, quota_call,
                bufferedVars,
                parseVars, classifyVars, guardVars, headerVars,
                translateVars, resolveVars>>

\* The task goes on to statement pc: it keeps running unless it suspends
\* there or has returned.
GoOn(t, pc) ==
    /\ lk_pc' = [lk_pc EXCEPT ![t] = pc]
    /\ lk_running' = IF yields(pc) \/ pc = "done" THEN "loop" ELSE t

\* The event loop resumes a task: one that has not returned, a task that
\* waits for the lock only once the lock is free.
Schedule(t) ==
    /\ lk_running = "loop"
    /\ lk_pc[t] # "done"
    /\ lk_pc[t] = "waiting" => lk_holder = ""
    /\ lk_running' = t
    /\ UNCHANGED <<lk_pc, lk_holder, lk_entries, lk_stamp, lk_seen>>
    /\ LockFrame

\* Time passes, between any two statements of any task.
LockTick(d) ==
    /\ ticks < MaxLockTicks
    /\ now' = now + d
    /\ ticks' = ticks + 1
    /\ UNCHANGED lockVars
    /\ UNCHANGED <<budgetVars, quotaVars, tierVars, sseVars, uniVars,
                   proxyVars, bridgeVars, requestVars, quota_call,
                   bufferedVars, parseVars, classifyVars, guardVars,
                   headerVars, translateVars, resolveVars>>

\* record_cost, budget.py lines 38-54, one statement at a time.
RecorderStep(t) ==
    /\ t \in Recorders
    /\ lk_running = t
    /\ CASE lk_pc[t] = "entry" ->
              \* lines 42-49: the cost and the entry, stamped with the
              \* clock as it is now
              /\ lk_stamp' = [lk_stamp EXCEPT ![t] = now]
              /\ GoOn(t, "acquire")
              /\ UNCHANGED <<lk_holder, lk_entries>>
         [] lk_pc[t] \in {"acquire", "waiting"} ->
              \* line 50: async with self._lock
              IF lk_holder = ""
              THEN /\ lk_holder' = t
                   /\ GoOn(t, "append")
                   /\ UNCHANGED <<lk_entries, lk_stamp>>
              ELSE /\ GoOn(t, "waiting")
                   /\ UNCHANGED <<lk_holder, lk_entries, lk_stamp>>
         [] lk_pc[t] = "append" ->
              \* line 51
              /\ lk_entries' =
                     Append(lk_entries,
                            CostEntry(lk_stamp[t], M_sonnet,
                                      RecorderTokens(t), 20,
                                      get_cost(M_sonnet, RecorderTokens(t),
                                               20)))
              /\ GoOn(t, "prune")
              /\ UNCHANGED <<lk_holder, lk_stamp>>
         [] lk_pc[t] = "prune" ->
              \* line 52
              /\ lk_entries' = prune(lk_entries, now)
              /\ GoOn(t, "release")
              /\ UNCHANGED <<lk_holder, lk_stamp>>
         [] lk_pc[t] = "release" ->
              \* the end of the async with block
              /\ lk_holder' = ""
              /\ GoOn(t, "done")
              /\ UNCHANGED <<lk_entries, lk_stamp>>
    /\ UNCHANGED lk_seen
    /\ LockFrame

\* The three window sums of should_downgrade, is_warning and
\* is_over_budget, budget.py lines 62-79: plain reads of _entries.
ReaderStep(t) ==
    /\ t \in Readers
    /\ lk_running = t
    /\ lk_pc[t] \in {"hourly", "daily", "monthly"}
    /\ LET window == CASE lk_pc[t] = "hourly" -> HOUR
                       [] lk_pc[t] = "daily" -> DAY
                       [] lk_pc[t] = "monthly" -> MONTH
       IN  lk_seen' = [lk_seen EXCEPT
                          ![t] = Append(@, window_spend(lk_entries, now,
                                                        window))]
    /\ GoOn(t, CASE lk_pc[t] = "hourly" -> "daily"
                 [] lk_pc[t] = "daily" -> "monthly"
                 [] lk_pc[t] = "monthly" -> "done")
    /\ UNCHANGED <<lk_holder, lk_entries, lk_stamp>>
    /\ LockFrame

NextLock ==
    \/ \E t \in LockTasks : Schedule(t) \/ RecorderStep(t) \/ ReaderStep(t)
    \/ \E d \in LockTickDeltas : LockTick(d)

SpecLock == InitLock /\ [][NextLock]_vars

(***************************************************************************)
(* SpecResolve: resolve_target on tier lists with providers that are       *)
(* excluded, unknown or without a key                                      *)
(***************************************************************************)

\* Provider a and c have a key, b has none; "ghost" is in no providers map.
ResolveProviders ==
    [a |-> ProviderConfig("a", "anthropic", "https://a", "ka"),
     b |-> ProviderConfig("b", "openai", "https://b", ""),
     c |-> ProviderConfig("c", "openai", "https://c", "kc")]

ResolveEntries ==
    { TierModel("a", <<"m", "1">>, None),
      TierModel("b", <<"m", "2">>, None),
      TierModel("c", <<"m", "3">>, [max_tokens |-> JNum(1)]),
      TierModel("ghost", <<"m", "4">>, None) }

MaxTierModels == 2    \* entries of a tier's list

RECURSIVE TierLists(_)
TierLists(n) ==
    IF n = 0 THEN {<<>>}
    ELSE TierLists(n - 1)
         \cup {Append(l, e) : l \in {x \in TierLists(n - 1) : Len(x) = n - 1},
                              e \in ResolveEntries}

ResolveConfigs ==
    { RouterConfig(TRUE, ResolveProviders, DefaultClassifier,
                   [tier1 |-> models, tier2 |-> <<>>], <<"tier1", "tier2">>,
                   BudgetConfig(None, None, None, 1, "allow"), "tier1") :
        models \in TierLists(MaxTierModels) }

InitResolve ==
    /\ rs_config \in ResolveConfigs
    /\ rs_tier \in {"tier1", "tier2", "tier9"}
    /\ rs_exclude \in {{}, {"a"}, {"c"}, {"a", "c"}}
    /\ rs_target = None
    /\ IdleAll /\ IdleBridge /\ IdleRequest /\ quota_call = None
    /\ IdleBuffered
    /\ IdleParse /\ IdleClassify /\ IdleGuard /\ IdleHeaders /\ IdleTranslate
    /\ IdleLock

\* target = resolve_target(config, tier, exclude_providers)
Resolve ==
    /\ rs_target = None
    /\ rs_target' = [returned |-> resolve_target(rs_config, rs_tier,
                                                 rs_exclude)]
    /\ UNCHANGED <<rs_config, rs_tier, rs_exclude>>
    /\ UNCHANGED <<clockVars, budgetVars, quotaVars, tierVars, sseVars,
                   uniVars, proxyVars, bridgeVars, requestVars, quota_call,
                   bufferedVars,
                   parseVars, classifyVars, guardVars, headerVars,
                   translateVars, lockVars>>

NextResolve == Resolve

SpecResolve == InitResolve /\ [][NextResolve]_vars

(***************************************************************************)
(* SpecBuffered: _forward_via_httpx on a trackable response that is not an *)
(* event stream (proxy.py lines 573-599)                                   *)
(***************************************************************************)

UsageOf(members) == JObj([usage |-> JObj(members)])

\* Bodies an upstream answers with: usage in the Anthropic and the OpenAI
\* naming, with and without a model, both namings at once, no usage, an
\* empty usage, JSON that is not an object, a usage that is not an object,
\* token counts that are not numbers, and bytes that are not JSON.
BufferedBodies ==
    { UsageJson,
      BodyJson(UsageOf([prompt_tokens |-> JNum(9),
                        completion_tokens |-> JNum(3)])),
      BodyJson(UsageOf([input_tokens |-> JNum(7), prompt_tokens |-> JNum(9),
                        completion_tokens |-> JNum(3)])),
      BodyJson(UsageOf([input_tokens |-> JNum(0),
                        output_tokens |-> JNum(0)])),
      ErrorJson,
      BodyJson(UsageOf(<<>>)),
      BodyJson(JArr(<<JNum(1)>>)),
      BodyJson(JObj([usage |-> JNum(5)])),
      BodyJson(UsageOf([input_tokens |-> JStr(<<"7">>)])),
      BodyGarbage }

BufferedStatuses == {200, 429, 500}

InitBuffered ==
    /\ bf_response \in { UpstreamResponse(status_code, <<>>, body) :
                           status_code \in BufferedStatuses,
                           body \in BufferedBodies }
    /\ bf_model \in {M_opus, M_unknown}
    /\ bf_manager \in BOOLEAN
    /\ bf_out = None
    /\ IdleAll /\ IdleBridge /\ IdleRequest /\ quota_call = None
    /\ IdleParse /\ IdleClassify /\ IdleGuard /\ IdleHeaders /\ IdleTranslate
    /\ IdleLock /\ IdleResolve

\* Lines 573-599; entries is the log of a manager that was empty before.
ForwardBuffered ==
    /\ bf_out = None
    /\ LET out == forward_buffered(bf_response, bf_model, bf_manager)
       IN  bf_out' =
               [out EXCEPT !.usage =
                   IF out.usage = None THEN None
                   ELSE [call |-> out.usage,
                         entries |->
                             record_cost(<<>>, out.usage.model,
                                         out.usage.input_tokens,
                                         out.usage.output_tokens,
                                         0, 0).entries]]
    /\ UNCHANGED <<bf_response, bf_model, bf_manager>>
    /\ UNCHANGED <<clockVars, budgetVars, quotaVars, tierVars, sseVars,
                   uniVars, proxyVars, bridgeVars, requestVars, quota_call,
                   parseVars, classifyVars, guardVars, headerVars,
                   translateVars, lockVars, resolveVars>>

NextBuffered == ForwardBuffered

SpecBuffered == InitBuffered /\ [][NextBuffered]_vars


(***************************************************************************)
(* Properties of QuotaTracker.update (SpecUpdate)                          *)
(***************************************************************************)

AnthropicHeaders ==
    {H_TOKENS_LIMIT, H_TOKENS_REMAINING, H_TOKENS_RESET, H_REQUESTS_LIMIT,
     H_REQUESTS_REMAINING, H_REQUESTS_RESET}

Has(headers, name) == name \in DOMAIN headers

\* The headers lack tokens-reset (or it is empty), a reset timestamp is
\* malformed, or a limit/remaining field is not an integer.
Unusable(headers) ==
    \/ ~Has(headers, H_TOKENS_RESET)
    \/ headers[H_TOKENS_RESET].kind # "rfc3339"
    \/ Has(headers, H_REQUESTS_RESET)
           /\ headers[H_REQUESTS_RESET].kind # "rfc3339"
    \/ \E n \in {H_TOKENS_LIMIT, H_TOKENS_REMAINING, H_REQUESTS_LIMIT,
                 H_REQUESTS_REMAINING} :
           Has(headers, n) /\ headers[n].kind # "int"

\* The headers without those that are not Anthropic's rate-limit headers.
OnlyAnthropic(headers) ==
    [n \in DOMAIN headers \cap AnthropicHeaders |-> headers[n]]

\* C16: update leaves the previous snapshot exactly as it was (absent if it
\* was absent) when the headers lack anthropic-ratelimit-tokens-reset, when
\* a reset timestamp is malformed, or when a limit/remaining field is not an
\* integer; and headers other than Anthropic's rate-limit headers have no
\* effect on the result.
C16_BadHeadersLeaveSnapshot ==
    quota_call # None =>
        /\ Unusable(quota_call.headers) => latest = quota_call.prev
        /\ latest = update(quota_call.prev, OnlyAnthropic(quota_call.headers),
                           quota_call.at)

C16_Witness ==
    /\ quota_call # None
    /\ quota_call.prev # None
    /\ Has(quota_call.headers, H_TOKENS_RESET)
    /\ Unusable(quota_call.headers)
    /\ Has(quota_call.headers, "content-type")
    /\ latest = quota_call.prev

\* The integer a header gives, 0 when the header is missing.
IntOr0(headers, name) == IF Has(headers, name) THEN headers[name].val ELSE 0

\* C17: a successful update replaces the snapshot wholesale: every field of
\* the new snapshot comes from the headers of that call (a missing integer
\* field is 0, a missing requests-reset is tokens-reset, updated_at is the
\* time of the call), nothing of the previous snapshot survives, and the
\* tracker holds that one snapshot.
C17_UpdateReplacesWholesale ==
    quota_call # None /\ ~Unusable(quota_call.headers) =>
        LET h == quota_call.headers
        IN  latest =
                [tokens_limit |-> IntOr0(h, H_TOKENS_LIMIT),
                 tokens_remaining |-> IntOr0(h, H_TOKENS_REMAINING),
                 tokens_reset |-> h[H_TOKENS_RESET].at,
                 requests_limit |-> IntOr0(h, H_REQUESTS_LIMIT),
                 requests_remaining |-> IntOr0(h, H_REQUESTS_REMAINING),
                 requests_reset |->
                     IF Has(h, H_REQUESTS_RESET) THEN h[H_REQUESTS_RESET].at
                     ELSE h[H_TOKENS_RESET].at,
                 updated_at |-> quota_call.at]

C17_Witness ==
    /\ quota_call # None
    /\ quota_call.prev # None
    /\ quota_call.prev.tokens_limit = 100000
    /\ ~Unusable(quota_call.headers)
    /\ ~Has(quota_call.headers, H_TOKENS_LIMIT)
    /\ ~Has(quota_call.headers, H_REQUESTS_RESET)
    /\ latest.tokens_limit = 0
    /\ latest.requests_reset = latest.tokens_reset

(***************************************************************************)
(* Properties of _parse_budgets (SpecParse)                                *)
(***************************************************************************)

\* The member of the section when it is there, else the default.
MemberOr(raw, name, default) ==
    IF raw # None /\ In(name, raw) THEN raw.v[name].v ELSE default

\* C18: the BudgetConfig made of a budgets section (and the default
\* BudgetConfig) carries max_push_within_minutes and max_push_tier, from the
\* document when present and 15 and "" otherwise, alongside downgrade_steps
\* and over_budget_action.
C18_BudgetConfigCarriesMaxPush ==
    parse_result # None =>
        /\ {"max_push_within_minutes", "max_push_tier", "downgrade_steps",
            "over_budget_action"} \subseteq DOMAIN parse_result
        /\ parse_result.max_push_within_minutes =
               MemberOr(parse_raw, "max_push_within_minutes", 15)
        /\ parse_result.max_push_tier = MemberOr(parse_raw, "max_push_tier", "")
        /\ parse_result.downgrade_steps =
               MemberOr(parse_raw, "downgrade_steps", 1)
        /\ parse_result.over_budget_action =
               MemberOr(parse_raw, "over_budget_action", "allow")

(***************************************************************************)
(* Properties of classify_request (SpecClassify)                           *)
(***************************************************************************)

\* The call returned a tier of tier_order or the default tier.
ReturnedKnownTier ==
    /\ ~classify_outcome.raised
    /\ classify_outcome.ex
           \in Range(classify_globals.tier_order) \cup {classify_default}

\* C20: classify_request never raises to its caller, whatever the shape of
\* the body's messages and tools, and what it returns is a tier of
\* tier_order or the caller's default tier.
C20_ClassifyNeverRaises ==
    classify_outcome # None => ReturnedKnownTier

(***************************************************************************)
(* Properties of the guard stage (SpecGuard)                               *)
(***************************************************************************)

\* The texts of every text position of a body: the system field and the
\* content of every message, whatever its role.
RECURSIVE ContentTexts(_)
ContentTexts(msgs) ==
    IF msgs = <<>> THEN <<>>
    ELSE TextsOf(Get(Head(msgs), "content", JStr(<<>>)))
             \o ContentTexts(Tail(msgs))

TextPositions(body) ==
    TextsOf(Get(body, "system", None))
        \o ContentTexts(Get(body, "messages", JArr(<<>>)).v)

HasHidden(texts) ==
    \E i \in 1..Len(texts) : \E j \in 1..Len(texts[i]) : IsHidden(texts[i][j])

\* The handler forwards the request, with a JSON body.
GuardPassed ==
    gs_out # None /\ gs_result.kind = "forward" /\ gs_result.body.kind = "json"

StripMode == gs_env.GUARD_ENABLED /\ gs_env.GUARD_STRIP_HIDDEN_UNICODE

\* C21: with the guard enabled in strip mode, the body handed on for
\* forwarding has no hidden code point in any text position: the system
\* field and the content of every message, whatever its role.
C21_ForwardedBodyHasNoHidden ==
    GuardPassed /\ StripMode
        => ~HasHidden(TextPositions(gs_result.body.value))

BlockMode == gs_env.GUARD_ENABLED /\ ~gs_env.GUARD_STRIP_HIDDEN_UNICODE

RECURSIVE Flatten(_)
Flatten(texts) ==
    IF texts = <<>> THEN <<>> ELSE Head(texts) \o Flatten(Tail(texts))

\* The hidden code points of the texts extracted from the request, in the
\* order of the texts, as "U+XXXX".
HiddenFound ==
    LET cps == SelectSeq(Flatten(extract_messages(ParseBody(gs_request),
                                                  gs_env.LLM_API_PROVIDER)),
                         IsHidden)
    IN  [i \in 1..Len(cps) |-> FormatCodepoint(cps[i])]

\* C22: with the guard enabled in block mode, a request whose extracted
\* texts contain a hidden code point is answered 400, the reason lists the
\* first ten code points found at most, and neither the guard service nor
\* an upstream is contacted; a request without hidden code points is not
\* blocked by this check.
C22_BlockModeAnswers400 ==
    gs_out # None /\ BlockMode /\ ParseBody(gs_request) # None =>
        IF HiddenFound # <<>>
        THEN /\ gs_result = ErrorResponse(400, "blocked")
             /\ gs_out.reason # None
             /\ gs_out.reason.codepoints =
                    SubSeq(HiddenFound, 1, Min(10, Len(HiddenFound)))
             /\ ~gs_out.stage.guard_called
        ELSE /\ gs_out.reason = None
             /\ gs_result.kind = "forward" \/ gs_out.stage.guard_called

C22_Witness ==
    /\ gs_out # None /\ BlockMode /\ gs_env.GUARD_URL # ""
    /\ ParseBody(gs_request) # None
    /\ Len(HiddenFound) > 10
    /\ gs_result.status_code = 400
    /\ gs_out.reason # None
    /\ Len(gs_out.reason.codepoints) = 10

(***************************************************************************)
(* Properties of the upstream headers (SpecHeaders)                        *)
(***************************************************************************)

\* The proxy's key for the chosen provider, and the provider's type.
TargetKey ==
    IF hd_target.path = "legacy" THEN hd_target.env.LLM_API_KEY
    ELSE hd_target.provider.api_key
TargetType ==
    IF hd_target.path = "legacy" THEN hd_target.env.LLM_API_PROVIDER
    ELSE hd_target.provider.type

CredentialNames == {"authorization", "x-api-key"}

\* C23: no upstream request carries a client-supplied authorization or
\* x-api-key value, nor the client's host or content-length, whatever the
\* letter case of the names; the one credential sent is the proxy's key for
\* the chosen provider.
C23_NoClientCredentialUpstream ==
    hd_out # None =>
        /\ \A k \in DOMAIN hd_out :
               /\ Lower(k) \notin {"host", "content-length"}
               /\ Lower(k) \in CredentialNames =>
                      k \in CredentialNames /\ hd_out[k].key = TargetKey
        /\ Cardinality(DOMAIN hd_out \cap CredentialNames) = 1

C23_Witness ==
    /\ hd_out # None
    /\ hd_target.path = "legacy"
    /\ {"X-Api-Key", "Host", "Content-Length"} \subseteq DOMAIN hd_headers
    /\ "x-api-key" \in DOMAIN hd_out
    /\ "accept" \in DOMAIN hd_out

Occurrences(parts, flag) == Cardinality({i \in 1..Len(parts) : parts[i] = flag})

HasHeader(name, value) == name \in DOMAIN hd_out /\ hd_out[name] = value

\* C24: on both forward paths the credential is injected by key kind: an
\* OpenAI-typed provider gets Authorization: Bearer <key>; an Anthropic key
\* starting with sk-ant-oat gets Authorization: Bearer <key>,
\* anthropic-version 2023-06-01 and an anthropic-beta header that keeps
\* every flag it had and has oauth-2025-04-20 and claude-code-20250219 once
\* each; any other Anthropic key gets x-api-key and anthropic-version.
C24_CredentialByKeyKind ==
    hd_out # None =>
        IF TargetType = "openai"
        THEN HasHeader("authorization", Bearer(TargetKey))
        ELSE IF IsPrefix(<<"sk-ant-oat">>, TargetKey)
        THEN /\ HasHeader("authorization", Bearer(TargetKey))
             /\ HasHeader("anthropic-version", <<"2023-06-01">>)
             /\ "anthropic-beta" \in DOMAIN hd_out
             /\ "anthropic-beta" \in DOMAIN hd_headers =>
                    \A flag \in Range(hd_headers["anthropic-beta"]) \ {""} :
                        flag \in Range(hd_out["anthropic-beta"])
             /\ Occurrences(hd_out["anthropic-beta"], "oauth-2025-04-20") = 1
             /\ Occurrences(hd_out["anthropic-beta"], "claude-code-20250219") = 1
        ELSE /\ HasHeader("x-api-key", ApiKey(TargetKey))
             /\ HasHeader("anthropic-version", <<"2023-06-01">>)

(***************************************************************************)
(* Properties of the relay (Spec)                                          *)
(***************************************************************************)

\* C25: every upstream response received updates the quota tracker from its
\* headers before it is relayed, whatever its status, content type,
\* trackability or forward path: under a configured smart router the
\* tracker's snapshot is the one that the responses received so far give.
C25_EveryResponseUpdatesQuota ==
    (phase = "serving" /\ SmartRoutingConfigured) => latest = seen_quota

\* The tier that selection gives the last request when max-push does not
\* apply and the request is not rejected, and the target it resolves to.
LastSelectedTier ==
    IF LastOverBudget THEN lowest_tier(environ.config_file)
    ELSE IF LastShouldDowngrade
    THEN downgrade_tier(environ.config_file, last.classified,
                        environ.config_file.budgets.downgrade_steps)
    ELSE last.classified
LastTarget == resolve_target(environ.config_file, LastSelectedTier, {})

\* C26: every response for a request that smart routing resolved to a
\* target carries x-llm-router-tier, x-llm-router-model and
\* x-llm-router-provider equal to the final tier, the target model and the
\* name of the provider used; responses served by legacy forwarding carry
\* none of them.  The relay copies the routing headers of the forward into
\* the response, so the property is stated on the forward.
C26_RoutedResponsesCarryHeaders ==
    /\ (/\ LastIsSmartRouted
        /\ ~LastMaxPush
        /\ ~(LastOverBudget
             /\ environ.config_file.budgets.over_budget_action = "reject")
        /\ LastTarget # None)
           => /\ last.out.result.kind = "forward"
              /\ last.out.result.routing_headers =
                     [tier |-> LastSelectedTier, model |-> LastTarget.model,
                      provider |-> LastTarget.provider.name]
    /\ (/\ last # None
        /\ last.out.result.kind = "forward"
        /\ last.out.result.via = "legacy")
           => last.out.result.routing_headers = None

(***************************************************************************)
(* Properties of a trackable event stream (SpecRequest)                    *)
(***************************************************************************)

\* The stream of a trackable text/event-stream response has ended: upstream
\* ended it, reading it raised, or the relay broke it off.
TrackableStreamEnded ==
    /\ rq_pc = "ended"
    /\ rq_fwd.is_trackable
    /\ IsStreaming(rq_response)
    /\ Passed("end") \/ Passed("error") \/ Passed("feed_raised")

\* C27: for a trackable SSE response, when the stream ends (normally or by
\* error) a cost entry is recorded if and only if the extracted usage is
\* non-zero (the proxy having a budget manager to record it); the entry
\* names the model extracted from the stream, or the request model when
\* none was seen, with the accumulated input and output tokens; and the
\* bytes relayed are exactly the upstream bytes: every chunk read is
\* yielded, to the last one when upstream ends the stream.
C27_StreamEndRecordsUsage ==
    TrackableStreamEnded /\ budget_manager # None
        => /\ Len(entries) = 1 <=> has_usage(rq_extractor)
           /\ Len(entries) = 1 =>
                  entries[1] =
                      CostEntry(entries[1].timestamp,
                                IF NoModel(rq_extractor)
                                THEN rq_fwd.request_model
                                ELSE rq_extractor.model.v,
                                rq_extractor.input_tokens,
                                rq_extractor.output_tokens,
                                get_cost(entries[1].model,
                                         rq_extractor.input_tokens,
                                         rq_extractor.output_tokens))
           /\ ~Passed("feed_raised")
           /\ Passed("end") => rq_rest = <<>>

(***************************************************************************)
(* Properties of the request translation (SpecTranslate)                   *)
(***************************************************************************)

\* The translated messages.
TrOut == tr_messages.list

TrMessages == Get(tr_body, "messages", JArr(<<>>)).v

ToolBlocksOf(msg) ==
    IF Get(msg, "content", JStr(<<>>)).t = "list"
    THEN SelectSeq(msg.v["content"].v,
                   LAMBDA b : BlockType(b) \in {"tool_use", "tool_result"})
    ELSE <<>>

TextBlocksOf(msg) ==
    IF Get(msg, "content", JStr(<<>>)).t = "list"
    THEN SelectSeq(msg.v["content"].v, LAMBDA b : BlockType(b) = "text")
    ELSE <<>>

TextsOfBlocks(blocks) ==
    [i \in 1..Len(blocks) |-> Get(blocks[i], "text", JStr(<<>>)).v]

\* The text of the top-level system: the string, or the texts of its text
\* blocks joined by blanks.
SystemText ==
    LET system == Get(tr_body, "system", None)
    IN  IF isinstance_str(system) THEN system.v
        ELSE IF isinstance_list(system)
        THEN JoinBlank(TextsOfBlocks(
                 SelectSeq(system.v, LAMBDA b : BlockType(b) = "text")))
        ELSE <<>>

\* How many messages one message of the body gives: one for each tool
\* block and one for its texts, or one for a content that is no list.
CountOf(msg) ==
    IF Get(msg, "content", JStr(<<>>)).t = "list"
    THEN Len(ToolBlocksOf(msg))
         + (IF TextBlocksOf(msg) # <<>> THEN 1 ELSE 0)
    ELSE 1

\* How many translated messages come before those of message m.
RECURSIVE StartOf(_)
StartOf(m) ==
    IF m = 1 THEN (IF SystemText # <<>> THEN 1 ELSE 0)
    ELSE StartOf(m - 1) + CountOf(TrMessages[m - 1])

SegmentOf(m) ==
    SubSeq(TrOut, StartOf(m) + 1, StartOf(m) + CountOf(TrMessages[m]))

\* The translated messages of message m: the tool messages in block order,
\* a tool_use block on the given role, then the one message with the texts.
SegmentAsClaimed(m, tool_use_role) ==
    LET msg == TrMessages[m]
        role == Get(msg, "role", JStr("user")).v
        seg == SegmentOf(m)
        tools == ToolBlocksOf(msg)
        texts == TextBlocksOf(msg)
    IN  /\ \A k \in 1..Len(tools) :
               IF BlockType(tools[k]) = "tool_use"
               THEN /\ DOMAIN seg[k] = {"role", "content", "tool_calls"}
                    /\ seg[k].role = tool_use_role
                    /\ seg[k].content = None
                    /\ Len(seg[k].tool_calls) = 1
                    /\ seg[k].tool_calls[1].id = Get(tools[k], "id", JStr("")).v
                    /\ seg[k].tool_calls[1].function.arguments =
                           json_dumps(Get(tools[k], "input", JObj(<<>>)))
               ELSE seg[k] =
                        [role |-> "tool",
                         tool_call_id |->
                             Get(tools[k], "tool_use_id", JStr("")).v,
                         content |->
                             py_str(Get(tools[k], "content", JStr(<<>>)))]
        /\ texts # <<>> =>
               seg[Len(seg)] = [role |-> role,
                                content |-> JoinBlank(TextsOfBlocks(texts))]

LeadingSystemMessage ==
    SystemText # <<>> =>
        /\ TrOut[1] = [role |-> "system", content |-> SystemText]
        /\ \A i \in 2..Len(TrOut) : TrOut[i].role # "system"

\* C28 as stated: a top-level system becomes one leading system message;
\* each tool_use block becomes a message on the assistant role with content
\* null and one tool_calls entry whose arguments are the JSON text of the
\* input; each tool_result block becomes {role: "tool", tool_call_id,
\* content}; within one message the tool messages come in block order
\* before the single message with the accumulated text.
C28_ToolCallsOnAssistant ==
    tr_messages # None =>
        /\ Len(TrOut) = StartOf(Len(TrMessages) + 1)
        /\ LeadingSystemMessage
        /\ \A m \in 1..Len(TrMessages) : SegmentAsClaimed(m, "assistant")

\* C28, amended: as above, with each tool_use block becoming a message on
\* the role of the message that holds it ("user" when it names none), which
\* is the assistant role for a tool_use block of an assistant message.
C28_ToolCallsOnMessageRole ==
    tr_messages # None =>
        /\ Len(TrOut) = StartOf(Len(TrMessages) + 1)
        /\ LeadingSystemMessage
        /\ \A m \in 1..Len(TrMessages) :
               SegmentAsClaimed(m, Get(TrMessages[m], "role", JStr("user")).v)

C28_Witness ==
    /\ tr_messages # None
    /\ Len(TrOut) = 4
    /\ TrOut[1].role = "system"
    /\ "tool_calls" \in DOMAIN TrOut[2] /\ "tool_calls" \in DOMAIN TrOut[3]
    /\ TrOut[2].role = "assistant" /\ TrOut[2].content = None
    /\ TrOut[2].tool_calls[1].function.arguments =
           <<"{", "\"", "city", "\"", ":", " ", "\"", "x", "\"", "}">>
    /\ TrOut[3].role = "assistant" /\ TrOut[3].content = None
    /\ TrOut[4] = [role |-> "assistant", content |-> <<"a", " ", "b">>]

(***************************************************************************)
(* Properties of the budget mutex (SpecLock)                               *)
(***************************************************************************)

\* The task is inside the append-and-prune critical section.
InSection(t) == lk_pc[t] \in {"append", "prune", "release"}

\* The task is executing a read of a window sum.
Reading(t) == lk_running = t /\ lk_pc[t] \in {"hourly", "daily", "monthly"}

MutationExclusive ==
    /\ \A t \in Recorders : InSection(t) => lk_holder = t
    /\ \A t, u \in Recorders : InSection(t) /\ InSection(u) => t = u

\* C29 as stated: mutation of the cost log is mutually exclusive under the
\* budget mutex, and every read of a window sum takes the same mutex.
C29_ReadersTakeTheMutex ==
    /\ MutationExclusive
    /\ \A q \in Readers : Reading(q) => lk_holder = q

\* C29, amended: mutation of the cost log is mutually exclusive under the
\* budget mutex; reads of window sums take no mutex, and no read executes
\* while another task is inside a record's append-and-prune critical
\* section, because the section has no suspension point.
C29_NoReadInsideSection ==
    /\ MutationExclusive
    /\ \A q \in Readers : Reading(q) => \A r \in Recorders : ~InSection(r)

C29_Witness ==
    /\ Reading("q1")
    /\ lk_pc["r1"] = "done"
    /\ lk_pc["r2"] = "entry"
    /\ Len(lk_entries) = 1
    /\ lk_holder = ""

(***************************************************************************)
(* Properties of resolve_target (SpecResolve)                              *)
(***************************************************************************)

\* The list of the tier asked for, empty for a tier the config does not
\* have.
ResolveModels ==
    IF rs_tier \in DOMAIN rs_config.tiers THEN rs_config.tiers[rs_tier]
    ELSE <<>>

\* Entry i qualifies: its provider is not excluded, is known and has a
\* non-empty key.
Qualifies(i) ==
    /\ ResolveModels[i].provider \notin rs_exclude
    /\ ResolveModels[i].provider \in DOMAIN rs_config.providers
    /\ rs_config.providers[ResolveModels[i].provider].api_key # ""

\* C30: resolve_target(tier, excluded) returns the first TierModel, in the
\* tier's list order, whose provider is not excluded, is known and has a
\* non-empty API key, with its model and extra_params; it returns none
\* exactly when no entry qualifies (an unknown tier included), and never a
\* provider that is excluded or has an empty key.
C30_FirstQualifyingEntry ==
    rs_target # None =>
        LET got == rs_target.returned
            qualifying == {i \in 1..Len(ResolveModels) : Qualifies(i)}
        IN  /\ got = None <=> qualifying = {}
            /\ got # None =>
                   /\ got.provider.name \notin rs_exclude
                   /\ got.provider.api_key # ""
                   /\ \E i \in qualifying :
                          /\ \A j \in qualifying : i <= j
                          /\ got.provider =
                                 rs_config.providers[ResolveModels[i].provider]
                          /\ got.model = ResolveModels[i].model
                          /\ got.extra_params =
                                 ResolveModels[i].extra_params

C30_Witness ==
    /\ rs_target # None
    /\ rs_target.returned # None
    /\ rs_exclude = {"a"}
    /\ Len(ResolveModels) = 2
    /\ ResolveModels[1].provider = "b"
    /\ rs_target.returned.provider.name = "c"
    /\ rs_target.returned.extra_params = [max_tokens |-> JNum(1)]

(***************************************************************************)
(* Properties of the buffered response (SpecBuffered)                      *)
(***************************************************************************)

\* The usage object of the response body, None when the body is not a JSON
\* object with a usage member.
BufferedUsageData ==
    LET body == bf_response.body
    IN  IF body.kind = "json" /\ isinstance_dict(body.value)
           /\ In("usage", body.value)
        THEN body.value.v["usage"] ELSE None

\* The member of a usage object under the first name, else under the
\* second, else 0.
TokensOf(usage_data, first, second) ==
    IF In(first, usage_data) THEN usage_data.v[first]
    ELSE IF In(second, usage_data) THEN usage_data.v[second]
    ELSE JNum(0)

\* C31: for a trackable response that is not an event stream, a cost entry
\* is recorded exactly when the status is 200 and the body is JSON with a
\* non-empty usage, with input_tokens (else prompt_tokens) and
\* output_tokens (else completion_tokens) and response.model (else the
\* request model); in every case the client gets the upstream status and
\* body unchanged.
C31_BufferedRecordsAndRelays ==
    bf_out # None =>
        /\ ~bf_out.raised
        /\ bf_out.result = Relayed(bf_response.status_code, None,
                                   bf_response.body)
        /\ LET usage_data == BufferedUsageData
               records == /\ bf_manager
                          /\ bf_response.status_code = 200
                          /\ Truthy(usage_data)
           IN  /\ (bf_out.usage # None) <=> records
               /\ records =>
                    /\ Len(bf_out.usage.entries) = 1
                    /\ bf_out.usage.entries[1].input_tokens =
                           TokensOf(usage_data, "input_tokens",
                                    "prompt_tokens").v
                    /\ bf_out.usage.entries[1].output_tokens =
                           TokensOf(usage_data, "output_tokens",
                                    "completion_tokens").v
                    /\ bf_out.usage.entries[1].model =
                           Get(bf_response.body.value, "model",
                               JStr(bf_model)).v

(***************************************************************************)
(* Properties of the external content guard (SpecGuard)                    *)
(***************************************************************************)

\* The guard service was asked about the request.
GuardAsked == gs_out.posted # None

\* The handler answered 400 because of what the guard service said (and
\* not because of the hidden-Unicode check).
BlockedByGuard == gs_out.stage.blocked # None /\ gs_out.reason = None

\* The guard service answered 200 with a score at or above the threshold.
GuardSaysBlock ==
    /\ ~gs_out.reply.unreachable
    /\ gs_out.reply.status_code = 200
    /\ gs_out.reply.score >= gs_env.GUARD_THRESHOLD

\* C32: the external guard blocks a request (400, nothing forwarded) if and
\* only if the guard is enabled with a URL and the service, asked about the
\* request, answers 200 with a score >= threshold; any other answer, a
\* network error, a timeout or an unparsable answer lets the request go on
\* to the forwarder.
C32_GuardBlocksIffScored ==
    gs_out # None =>
        /\ GuardAsked => gs_env.GUARD_ENABLED /\ gs_env.GUARD_URL # ""
        /\ BlockedByGuard <=> (GuardAsked /\ GuardSaysBlock)
        /\ BlockedByGuard => gs_result = ErrorResponse(400, "blocked")
        /\ (GuardAsked /\ ~GuardSaysBlock) => gs_result.kind = "forward"

C32_Witness ==
    /\ gs_out # None
    /\ BlockedByGuard
    /\ gs_out.reply = GuardReply(200, 80)
    /\ gs_result = ErrorResponse(400, "blocked")

\* A request was let through although the guard service failed.
C32_FailOpenReached ==
    /\ gs_out # None
    /\ GuardAsked
    /\ gs_out.reply = GuardRaises("unparsable")
    /\ gs_result.kind = "forward"

\* C40: in strip mode the texts posted to the guard service are the
\* stripped texts: they hold no hidden code point and are the texts of the
\* body that is forwarded upstream.
C40_GuardSeesStrippedTexts ==
    (gs_out # None /\ StripMode /\ GuardAsked) =>
        /\ ~HasHidden(gs_out.posted.messages)
        /\ gs_out.posted.messages =
               extract_messages(gs_out.stage.body_dict,
                                gs_env.LLM_API_PROVIDER)

(***************************************************************************)
(* Properties of the classifier (SpecHeuristic)                            *)
(***************************************************************************)

\* The quantities the heuristic rules are stated in.
MsgCount == Len(classify_body.v["messages"].v)
ToolCount ==
    IF "tools" \in DOMAIN classify_body.v
    THEN Len(classify_body.v["tools"].v) ELSE 0

\* The content of the last message whose role is user.
LastUserContent ==
    LET msgs == classify_body.v["messages"].v
        users == {i \in 1..Len(msgs) : msgs[i].v["role"] = JStr("user")}
        k == CHOOSE i \in users : \A j \in users : j <= i
    IN  msgs[k].v["content"]

\* The sum of the lengths of the text-typed blocks among the first n.
RECURSIVE TextBlockLens(_, _)
TextBlockLens(blocks, n) ==
    IF n = 0 THEN 0
    ELSE TextBlockLens(blocks, n - 1)
           + (IF blocks[n].v["type"] = JStr("text")
              THEN Len(blocks[n].v["text"].v) ELSE 0)

LastUserTextLen ==
    IF LastUserContent.t = "str" THEN Len(LastUserContent.v)
    ELSE TextBlockLens(LastUserContent.v, Len(LastUserContent.v))

WantsThinking ==
    \E n \in {"thinking", "extended_thinking"} :
        /\ n \in DOMAIN classify_body.v
        /\ Truthy(classify_body.v[n])

HighestTier == classify_globals.tier_order[1]
LowestTier == classify_globals.tier_order[Len(classify_globals.tier_order)]

ShortRule == MsgCount <= 3 /\ ToolCount = 0 /\ LastUserTextLen < 200
LargeRule == MsgCount > 20 \/ ToolCount > 5

PreFilterRan ==
    classify_outcome # None /\ classify_globals.config.heuristic_bypass

\* C33: the heuristic pre-filter returns the lowest tier when msg_count <= 3
\* and tool_count = 0 and the last user text is shorter than 200, the
\* highest tier when msg_count > 20 or tool_count > 5, and is undecided when
\* no rule applies (neither of these, and no thinking field); the length is
\* that of a string content or the sum over the text-typed blocks.
C33_HeuristicRules ==
    PreFilterRan =>
        /\ ~classify_outcome.heuristic.raised
        /\ ShortRule =>
               classify_outcome.heuristic.ex = [tier |-> LowestTier]
        /\ LargeRule =>
               classify_outcome.heuristic.ex = [tier |-> HighestTier]
        /\ (~ShortRule /\ ~LargeRule /\ ~WantsThinking) =>
               classify_outcome.heuristic.ex = None

\* A 199-character last user message in text blocks, three messages, no
\* tools: the lowest tier.
C33_Witness ==
    /\ PreFilterRan
    /\ MsgCount = 3 /\ ToolCount = 0
    /\ LastUserContent.t = "list" /\ LastUserTextLen = 199
    /\ classify_outcome.heuristic.ex = [tier |-> "tier3"]
    /\ classify_outcome.returned = Returned("tier3")

\* C34: with the pre-filter enabled, every request with a truthy thinking
\* or extended_thinking field is classified to the highest tier.
C34_ThinkingGoesHighest ==
    (PreFilterRan /\ WantsThinking) =>
        classify_outcome.returned = Returned(HighestTier)

\* The call reached the score: the pre-filter is off or undecided, there is
\* a controller, and the router gave a score.
OnScorePath ==
    /\ classify_outcome # None
    /\ (classify_globals.config.heuristic_bypass
            => classify_outcome.heuristic.ex = None)
    /\ classify_globals.controller
    /\ ~classify_ml.raises

\* The tier the threshold walk is said to give for a score.
WalkTier(score) ==
    LET thresholds == classify_globals.config.thresholds
        order == classify_globals.tier_order
        exceeded == {i \in 1..Len(thresholds) : score > thresholds[i]}
        first == CHOOSE i \in exceeded : \A j \in exceeded : i <= j
    IN  IF exceeded = {} THEN order[Len(order)]
        ELSE IF first \in 1..Len(order) THEN order[first]
        ELSE classify_default

\* The position of a tier in tier_order.
RankOf(tier) ==
    CHOOSE i \in 1..Len(classify_globals.tier_order) :
        classify_globals.tier_order[i] = tier

ThresholdsFit ==
    Len(classify_globals.config.thresholds)
        = Len(classify_globals.tier_order) - 1

SendCount == Cardinality({i \in 1..Len(rq_stages) : rq_stages[i] = "send"})

C36_ReadErrorReached ==
    rq_pc = "returned" /\ SendCount = 1 /\ rq_result = [kind |-> "raised"]
C36_ServerErrorReached ==
    /\ rq_pc = "returned" /\ SendCount = 1
    /\ rq_result.kind = "response" /\ rq_result.status_code = 500

\* The upstream answered 200 with token usage that is not zero, in a JSON
\* body or in an event stream.
AnsweredWithUsage ==
    /\ rq_response # None
    /\ rq_response.status_code = 200
    /\ rq_response.body \in {UsageJson, UsageStream, MalformedStream}

\* The request is over and the upstream did not fail while its answer was
\* read: what was not read of it was left by the proxy or its client.
AnswerNotBroken ==
    /\ RequestOver
    /\ rq_result # [kind |-> "raised"]
    /\ ~Passed("error")

\* C37: every trackable request that a provider answers with token usage
\* that is not zero appends exactly one CostEntry to the budget log,
\* whichever path served it, streaming or not; no request appends more than
\* one.
C37_OneCostEntryPerAnswer ==
    /\ Len(entries) <= 1 /\ recorded <= 1
    /\ (/\ rq_fwd # None /\ rq_fwd.is_trackable
        /\ budget_manager # None
        /\ AnsweredWithUsage /\ AnswerNotBroken)
           => Len(entries) = 1 /\ recorded = 1

(***************************************************************************)
(* Properties of concurrent record_cost calls (SpecLock)                   *)
(***************************************************************************)

\* The positions of the log that hold the entry of a recording task.
EntriesOf(t) ==
    {i \in 1..Len(lk_entries) :
        lk_entries[i].input_tokens = RecorderTokens(t)}

\* The task has executed its append.
HasAppended(t) == lk_pc[t] \in {"prune", "release", "done"}

\* Each call appends one entry, and an entry leaves the log only when it is
\* older than the age at which entries are pruned.
OneEntryPerCall ==
    \A t \in Recorders :
        /\ Cardinality(EntriesOf(t)) <= 1
        /\ ~HasAppended(t) => EntriesOf(t) = {}
        /\ HasAppended(t) =>
               \/ /\ Cardinality(EntriesOf(t)) = 1
                  /\ \A i \in EntriesOf(t) :
                         lk_entries[i].timestamp = lk_stamp[t]
               \/ lk_stamp[t] < now - PRUNE_AGE

LogOrdered ==
    \A i, j \in 1..Len(lk_entries) :
        i < j => lk_entries[i].timestamp <= lk_entries[j].timestamp

\* A prune leaves no entry older than its cutoff.
PruneIsComplete ==
    (\E t \in Recorders : lk_pc[t] = "prune" /\ lk_pc'[t] = "release")
        => \A i \in 1..Len(lk_entries') :
               lk_entries'[i].timestamp >= now - PRUNE_AGE

\* C38: under any interleaving of concurrent record_cost calls, each of
\* which takes its timestamp before it acquires the lock, every call
\* appends exactly one entry, no entry is lost or duplicated, the log stays
\* ordered by timestamp, and a prune, which removes from the front, leaves
\* no entry older than the cutoff.
C38_LogOrderedUnderConcurrency ==
    /\ [](OneEntryPerCall /\ LogOrdered)
    /\ [][PruneIsComplete]_vars

\* Both calls have returned, the clock advanced between their timestamps,
\* and the log holds the two entries in the order of the timestamps.
C38_Witness ==
    /\ \A t \in Recorders : lk_pc[t] = "done"
    /\ Len(lk_entries) = 2
    /\ lk_entries[1].timestamp < lk_entries[2].timestamp
    /\ lk_entries[1].input_tokens = RecorderTokens("r2")

\* A prune has removed the entry of the first call, more than 31 days old.
C38_PrunedReached ==
    /\ \A t \in Recorders : lk_pc[t] = "done"
    /\ Len(lk_entries) = 1
    /\ lk_stamp["r1"] < now - PRUNE_AGE

(***************************************************************************)
(* Properties of startup (Spec)                                            *)
(***************************************************************************)

\* The push window of the budgets configuration.
ConfiguredPushWindow ==
    LET budgets == environ.config_file.budgets
    IN  IF "max_push_within_minutes" \in DOMAIN budgets
        THEN budgets.max_push_within_minutes
        ELSE DEFAULT_PUSH_WITHIN_MINUTES

\* C39: when SMART_ROUTER_ENABLED is true and the router configuration
\* loads and is enabled, startup ends with the smart router ready and with
\* a budget manager and a quota tracker in place, the tracker's push window
\* being that of the budgets configuration; a trackable request with a
\* parseable body then goes through tier selection (to a resolved tier or
\* the 429 of an exceeded budget) and not to legacy forwarding.
C39_StartupMakesRouterReady ==
    (phase = "serving" /\ SmartRoutingConfigured) =>
        /\ smart_router_ready
        /\ budget_manager # None
        /\ quota_tracker # None
        /\ push_within_minutes = ConfiguredPushWindow
        /\ LastIsSmartRouted =>
               \/ last.out.resolved # None
               \/ last.out.result = ErrorResponse(429, "budget_exceeded")

====
